---- MODULE Spec2Model ----
(***************************************************************************)
(* Verification model of pingclair: hot reload of per-listener proxy      *)
(* state, the AutoHTTPS issuance guard, the ACME order workflow and the   *)
(* challenge handlers.                                                     *)
(*                                                                         *)
(* Conventions: an Option<T> is a sequence, <<>> for None and <<x>> for   *)
(* Some(x).  Variables prefixed g_ are history variables that record what *)
(* happened; no action of the program reads them.                          *)
(***************************************************************************)
EXTENDS Integers, Sequences, FiniteSets, TLC

VARIABLES
    \* ---- proxy / hot reload (pingclair-proxy, pingclair-api, main.rs) ----
    port_proxies,       \* listen address -> PingclairProxy {hosts, default}
    next_arc,           \* next fresh Arc identity handed out by ProxyState::new
    active_connections, \* load balancer id -> upstream index -> counter
    req_pc,             \* request -> position in the ProxyHttp filter chain
    req_in,             \* request -> [addr, host]
    ctx,                \* request -> RequestCtx
    rl_pc,              \* reloader -> position in the reload flow
    rl_src,             \* reloader -> configuration source being applied
    rl_todo,            \* reloader -> work left (addresses still to visit)
    rl_updated,         \* reloader -> success_count / updated
    rl_errors,          \* reloader -> error_count
    rl_outcome,         \* reloader -> how its last attempt ended
    rl_count,           \* reloader -> attempts started
    g_before,           \* reloader -> port_proxies when the attempt started
    g_clean,            \* reloader -> no other reloader wrote since it started
    g_replaced,         \* reloader -> ids of the states its attempt replaced
    g_old_ids,          \* ids of states replaced by completed reloads
    g_stale,            \* request -> g_old_ids when its request_filter ran
    g_peer_saw,         \* request -> what get_state answered when upstream_peer ran
    \* ---- AutoHTTPS and certificate resolution (pingclair-tls, main.rs) ----
    now,                \* wall clock, seconds since the epoch
    ticks,              \* clock advances so far
    cert_cache,         \* CertStore.cache: domain -> Option<Certificate>
    cert_files,         \* CertStore directory: file name -> Option<CertificateData>
    processing,         \* AutoHttps.processing
    openssl_cache,      \* DynamicCertResolver.openssl_cache: sni -> Option<entry>
    issued,             \* certificates issued so far by the ACME server
    hs_pc,              \* handshake task -> position
    hs_sni,             \* handshake task -> server name of the client hello
    hs_time,            \* handshake task -> current_time read by the callback
    hs_prior,           \* handshake task -> what store.get(domain) returned
    hs_result,          \* handshake task -> result of obtain_certificate / get_certificate
    hs_served,          \* handshake task -> certificate set on the connection
    hs_count,           \* handshakes started
    g_acme_failed,      \* handshake task -> obtain_certificate failed in this call
    cache_guard,        \* handshake task -> guard it holds on openssl_cache: "none" | "read" | "write"
    g_read_in_issuance, \* handshake task -> it read the cache while another domain was being issued
    restarted,          \* the process has been restarted
    g_files_at_restart, \* the certificate files as the last restart found them
    \* ---- ACME order workflow and challenge handlers (acme.rs, persistent_challenge_handler.rs) ----
    handler_kind,       \* "none" until TlsManager is built, then "memory" or "persistent"
    tokens,             \* handler instance -> token -> Option<TokenEntry>
    inst_pc,            \* handler instance -> "absent" | "loaded" | "ready"
    challenge_file,     \* Option<JSON text> of the challenge storage file
    bg,                 \* spawned handler tasks, in spawn order
    ob_pc,              \* obtain_certificate: position
    ob_domains,         \* obtain_certificate: domains argument
    ob_i,               \* obtain_certificate: next authorization of the order
    ob_state,           \* obtain_certificate: order status returned by poll_ready
    ob_result,          \* obtain_certificate: "none" | "ok" | "err"
    active_challenges,  \* obtain_certificate: challenges kept for cleanup
    orders,             \* orders created so far
    g_deployed,         \* challenges for which handler.deploy returned Ok
    g_cleaned,          \* challenges for which handler.cleanup was invoked
    g_ready_told,       \* challenges the ACME server was told are ready
    g_stored_at_load,   \* instance -> challenges durably stored when it loaded the file
    \* ---- Challenge-token garbage collection (persistent_challenge_handler.rs) ----
    gc_pc,              \* cleanup_expired: "idle" | "save" | "write"
    gc_ticks,           \* clock steps taken while the handler runs
    \* ---- CertStore used on its own (cert_store.rs) ----
    st_count,           \* CertStore operations performed
    g_last_stored,      \* Option<Certificate>: the argument of store when it was the last write
    g_reinit,           \* init ran after that store
    g_removed,          \* Option<Certificate>: what the remove that just returned Ok had found
    \* ---- TlsManager resolution (manager.rs) ----
    cached_certs,       \* domain -> Option<CachedCert>
    rs_count,           \* resolutions performed
    rs_ticks,           \* clock steps taken between resolutions
    g_resolve,          \* Option: what the last resolution found and consulted
    \* ---- Router used on its own (router.rs) ----
    rt_pc,              \* "config", "built", "matched"
    rt_routes,          \* the route list handed to Router::new
    rt_router,          \* the Router it built
    rt_request,         \* Option: the last request matched
    rt_result,          \* Option<index>: what match_request returned for it
    \* ---- Serving requests (server.rs) from an adapted Caddyfile ----
    resp,               \* request -> Option: the response the client received
    sv_rr,              \* load balancer id -> value of its round-robin counter
    sv_unhealthy,       \* <<load balancer id, address>> of the backends marked unhealthy
    sv_started,         \* run_server has installed a compiled Caddyfile
    \* ---- LoadBalancer used on its own (load_balancer.rs, health_check.rs) ----
    lb_cfg,             \* upstreams, strategy and health-check thresholds given to it
    balancer,           \* Option<LoadBalancer>
    lb_counter,         \* the AtomicUsize of the RoundRobin algorithm
    lb_health,          \* address -> [healthy, consecutive_counter]
    sel,                \* selector -> position, key, first index, last result
    lb_begun,           \* select calls begun
    lb_done,            \* select calls returned
    lb_probes,          \* health probes observed
    g_selected,         \* address -> number of select calls that returned it
    g_keys,             \* the keys of the select calls begun
    g_by_key,           \* key -> results returned to calls made with it
    g_overlap,          \* two select calls were in progress at once
    g_changed,          \* the healthy set changed after a select call had begun
    g_run,              \* address -> [outcome, n]: the current run of equal probe outcomes
    \* ---- PingclairConnectionFilter (connection_filter.rs) ----
    cf_blocked_ips,     \* the strings given to new
    cf_filter,          \* Option<PingclairConnectionFilter>
    cf_peer,            \* Option<Option<IpAddr>>: the argument of the last should_accept
    cf_accept,          \* Option<bool>: what it returned
    \* ---- JSON round trip of a compiled route (types.rs, pingclair-api) ----
    js_pc,              \* "start", "compiled", "serialized", "deserialized"
    js_config,          \* the compiled RouteConfig
    js_json,            \* Result: what serde_json::to_string gave for it
    js_back,            \* Result: what serde_json::from_str gave for that text
    \* ---- Caddyfile adapter and compiler (pingclair-config) ----
    cp_pc,              \* "start", "adapted", "compiled", "routed"
    cp_block,           \* the ServerBlock: named matchers and route arms
    cp_routes,          \* Result: the compiled routes
    cp_router,          \* Option<Router> built from them
    cp_request,         \* Option: the request last matched
    cp_result,          \* Option<index>: what match_request returned for it
    \* ---- Certificate::needs_renewal on machine integers (acme.rs) ----
    nr_call,            \* Option: [expires_at, now, out] of the last call
    \* ---- FileServer (pingclair-static/src/file_server.rs) ----
    pr_call,            \* Option: [header, file_size, out] of the last parse_range
    fs_call,            \* Option: [path, served] of the last serve
    \* ---- the life of a proxied request (pingclair-proxy/src/server.rs) ----
    cn_ended,           \* request -> it has ended
    cn_count,           \* requests begun
    \* ---- the renewal task (pingclair-tls/src/auto_https.rs) ----
    rd_pc,              \* "sleep" or "renew"
    rd_candidates,      \* the certificates the scan returned, not yet handled
    rd_seeds            \* certificates stored from outside the task

vars_reload == <<port_proxies, next_arc, active_connections, req_pc, req_in, ctx,
                 rl_pc, rl_src, rl_todo, rl_updated, rl_errors, rl_outcome,
                 rl_count, g_before, g_clean, g_replaced, g_old_ids, g_stale,
                 g_peer_saw>>

vars_auto == <<now, ticks, cert_cache, cert_files, processing, openssl_cache, issued,
               hs_pc, hs_sni, hs_time, hs_prior, hs_result, hs_served, hs_count,
               g_acme_failed, cache_guard, g_read_in_issuance, restarted, g_files_at_restart>>

vars_acme == <<handler_kind, tokens, inst_pc, challenge_file, bg, ob_pc, ob_domains, ob_i,
               ob_state, ob_result, active_challenges, orders, g_deployed, g_cleaned,
               g_ready_told, g_stored_at_load>>

vars_gc == <<gc_pc, gc_ticks>>

vars_store == <<st_count, g_last_stored, g_reinit, g_removed>>

vars_resolve == <<cached_certs, rs_count, rs_ticks, g_resolve>>

vars_router == <<rt_pc, rt_routes, rt_router, rt_request, rt_result>>

vars_serve == <<resp, sv_rr, sv_unhealthy, sv_started>>

vars_lb == <<lb_cfg, balancer, lb_counter, lb_health, sel, lb_begun, lb_done, lb_probes,
             g_selected, g_keys, g_by_key, g_overlap, g_changed, g_run>>

vars_filter == <<cf_blocked_ips, cf_filter, cf_peer, cf_accept>>

vars_json == <<js_pc, js_config, js_json, js_back>>

vars_compile == <<cp_pc, cp_block, cp_routes, cp_router, cp_request, cp_result>>

vars_base == <<vars_reload, vars_auto, vars_acme, vars_gc, vars_store, vars_resolve, vars_router,
               vars_serve, vars_lb, vars_filter, vars_json>>

vars_renew == <<nr_call>>

vars_range == <<pr_call>>

vars_file == <<fs_call>>

vars_conn == <<cn_ended, cn_count>>

vars_daemon == <<rd_pc, rd_candidates, rd_seeds>>

vars_ext == <<vars_compile, vars_renew, vars_range, vars_file, vars_conn, vars_daemon>>

vars == <<vars_base, vars_ext>>

None == <<>>
Some(x) == <<x>>
IsSome(o) == o # <<>>
Unwrap(o) == o[1]

\* ------------------------------------------------------------------------
\* Bounds
\* ------------------------------------------------------------------------
MaxReloads == 2

\* ------------------------------------------------------------------------
\* Configuration values
\* ------------------------------------------------------------------------
Addr80 == "0.0.0.0:80"
Addr8080 == "0.0.0.0:8080"
Addr9090 == "0.0.0.0:9090"

HostNames == {"a.com", "b.com"}
ReqHosts == {"a.com", "z.org"}

ReverseProxy(v) ==
    [type |-> "reverse_proxy", upstreams |-> <<v>>, strategy |-> "round_robin",
     headers_up |-> {<<"X-Config", v>>}, headers_down |-> {<<"X-Served-By", v>>}]

Respond(v) == [type |-> "respond", status |-> 200, body |-> v]

Route(path, handler) == [path |-> path, handler |-> handler, methods |-> None, matcher |-> None]

ServerConfig(name, listen, routes) == [name |-> name, listen |-> listen, routes |-> routes]

DefaultServer(v) == ServerConfig(None, <<Addr80, Addr8080>>, <<Route(<<"/", "*">>, ReverseProxy(v))>>)
SiteServer(v) == ServerConfig(Some("a.com"), <<Addr80>>, <<Route(<<"/", "*">>, Respond(v))>>)
NewPortServer(v) == ServerConfig(Some("b.com"), <<Addr9090>>, <<Route(<<"/", "*">>, Respond(v))>>)
TwoPortServer(v) == ServerConfig(Some("a.com"), <<Addr80, Addr9090>>, <<Route(<<"/", "*">>, ReverseProxy(v))>>)

StartupConfig == <<DefaultServer("v0"), SiteServer("v0")>>

\* Configuration files a SIGHUP may find on disk.
SighupSources ==
    { [valid |-> TRUE,  servers |-> <<DefaultServer("v1"), SiteServer("v1")>>],
      [valid |-> TRUE,  servers |-> <<SiteServer("v1"), NewPortServer("v1")>>],
      [valid |-> FALSE, servers |-> <<DefaultServer("v1")>>] }

\* Bodies an admin client may POST to /config.
AdminBodies ==
    { [valid |-> TRUE,  server |-> SiteServer("v2")],
      [valid |-> TRUE,  server |-> DefaultServer("v2")],
      [valid |-> TRUE,  server |-> TwoPortServer("v2")],
      [valid |-> TRUE,  server |-> NewPortServer("v2")],
      [valid |-> FALSE, server |-> SiteServer("v2")] }

\* ------------------------------------------------------------------------
\* Router (pingclair-core/src/server/router.rs)
\* ------------------------------------------------------------------------
\* A path is the sequence of its pieces: "/api/*" is <<"/", "api", "/", "*">>.
\* The pieces "api", "v1" and "{*rest}" stand for those runs of characters;
\* header and query values are sequences of pieces as well.
starts_with(s, prefix) == Len(s) >= Len(prefix) /\ SubSeq(s, 1, Len(prefix)) = prefix

ends_with(s, suffix) == Len(s) >= Len(suffix) /\ SubSeq(s, Len(s) - Len(suffix) + 1, Len(s)) = suffix

contains(s, sub) == \E i \in 0..(Len(s) - Len(sub)) : SubSeq(s, i + 1, i + Len(sub)) = sub

to_ascii_lowercase(s) ==
    CASE s = "GET" -> "get"
      [] s = "POST" -> "post"
      [] s = "A.COM" -> "a.com"
      [] s = "HTTP" -> "http"
      [] OTHER -> s

eq_ignore_ascii_case(a, b) == to_ascii_lowercase(a) = to_ascii_lowercase(b)

normalize_path(path) == IF path = <<>> THEN <<"/">> ELSE path

IsDefaultRoute(route) == normalize_path(route.path) \in {<<"/", "*">>, <<"/">>}

\* glob_to_matchit: "X/*" becomes "X/{*rest}", "X*" becomes "X{*rest}".
glob_to_matchit(path) ==
    IF ends_with(path, <<"/", "*">>)
    THEN SubSeq(path, 1, Len(path) - 2) \o <<"/", "{*rest}">>
    ELSE IF ends_with(path, <<"*">>)
    THEN SubSeq(path, 1, Len(path) - 1) \o <<"{*rest}">>
    ELSE path

\* path_matches: the glob test of the Path matcher.
path_matches(path, pattern) ==
    IF ends_with(pattern, <<"/", "*">>)
    THEN starts_with(path, SubSeq(pattern, 1, Len(pattern) - 2))
    ELSE IF ends_with(pattern, <<"*">>)
    THEN starts_with(path, SubSeq(pattern, 1, Len(pattern) - 1))
    ELSE path = pattern

\* The indices of the routes Router::new pushes onto default_routes.
DefaultRoutes(routes) ==
    SelectSeq([i \in 1..Len(routes) |-> i], LAMBDA i : IsDefaultRoute(routes[i]))

\* path_groups of Router::new: normalized path -> the routes with that path,
\* in list order.  A CompiledRoute is written as its index in the list.
PathGroups(routes) ==
    [p \in {normalize_path(routes[i].path) : i \in {j \in 1..Len(routes) : ~IsDefaultRoute(routes[j])}} |->
        SelectSeq([i \in 1..Len(routes) |-> i],
                  LAMBDA i : ~IsDefaultRoute(routes[i]) /\ normalize_path(routes[i].path) = p)]

\* The orders in which `for (path, routes) in path_groups` may visit the
\* HashMap: every order of its keys.
GroupOrders(routes) ==
    LET keys == DOMAIN PathGroups(routes)
    IN  {order \in [1..Cardinality(keys) -> keys] :
            \A i, j \in 1..Cardinality(keys) : i # j => order[i] # order[j]}

\* matchit insert: a route equal to one already in the tree is refused
\* (InsertError::Conflict) and the tree stays as it was.
RadixInsert(radix, matchit_path, value) ==
    IF matchit_path \in DOMAIN radix
    THEN radix
    ELSE [k \in DOMAIN radix \cup {matchit_path} |->
             IF k = matchit_path THEN value ELSE radix[k]]

IsCatchAll(matchit_path) == ends_with(matchit_path, <<"{*rest}">>)

\* matchit at: a static route equal to the path wins; otherwise the
\* catch-all route with the longest prefix, whose {*rest} must take at least
\* one piece; otherwise no match.
RadixAt(radix, path) ==
    IF path \in DOMAIN radix /\ ~IsCatchAll(path)
    THEN Some(radix[path])
    ELSE LET hits == {k \in DOMAIN radix :
                         /\ IsCatchAll(k)
                         /\ starts_with(path, SubSeq(k, 1, Len(k) - 1))
                         /\ Len(path) > Len(k) - 1}
         IN  IF hits = {} THEN None
             ELSE Some(radix[CHOOSE k \in hits : \A h \in hits : Len(h) <= Len(k)])

RECURSIVE InsertGroups(_, _, _)
InsertGroups(radix, groups, order) ==
    IF order = <<>> THEN radix
    ELSE InsertGroups(RadixInsert(radix, glob_to_matchit(Head(order)), groups[Head(order)]),
                      groups, Tail(order))

\* Router::new: routes whose path is "/*" or "/" become default routes; the
\* others are grouped by path and the groups are inserted into the radix
\* tree in the order the HashMap yields them; a refused group is dropped.
Router_new(routes, order) ==
    [path_router    |-> InsertGroups(<<>>, PathGroups(routes), order),
     default_routes |-> DefaultRoutes(routes),
     all_routes     |-> routes]

\* A slip: the default routes are tried before the routes of the radix tree.
match_path_defaults_first(router, path) ==
    LET matched == RadixAt(router.path_router, path)
    IN  router.default_routes \o (IF IsSome(matched) THEN Unwrap(matched) ELSE <<>>)

\* Router::match_path: the radix-tree group for the path first, then the
\* default routes.
match_path(router, path) ==
    LET matched == RadixAt(router.path_router, path)
    IN  (IF IsSome(matched) THEN Unwrap(matched) ELSE <<>>) \o router.default_routes

\* evaluate_condition on an Option<&str>.  The matchers of this model carry
\* no Regex condition.
evaluate_condition(value, condition) ==
    CASE condition.kind = "Exists"     -> IsSome(value)
      [] condition.kind = "Equals"     -> IsSome(value) /\ Unwrap(value) = condition.arg
      [] condition.kind = "Contains"   -> IsSome(value) /\ contains(Unwrap(value), condition.arg)
      [] condition.kind = "StartsWith" -> IsSome(value) /\ starts_with(Unwrap(value), condition.arg)
      [] condition.kind = "EndsWith"   -> IsSome(value) /\ ends_with(Unwrap(value), condition.arg)

\* evaluate_matcher_inner.  The query string is not among the arguments of
\* match_request; a Query matcher is true whatever the request.
RECURSIVE evaluate_matcher_inner(_, _)
evaluate_matcher_inner(matcher, q) ==
    CASE matcher.kind = "Path"     -> \E i \in 1..Len(matcher.patterns) : path_matches(q.path, matcher.patterns[i])
      [] matcher.kind = "Header"   -> evaluate_condition(q.headers[matcher.name], matcher.condition)
      [] matcher.kind = "Method"   -> \E i \in 1..Len(matcher.methods) : eq_ignore_ascii_case(matcher.methods[i], q.method)
      [] matcher.kind = "Query"    -> TRUE
      [] matcher.kind = "Host"     -> \E i \in 1..Len(matcher.hosts) : eq_ignore_ascii_case(matcher.hosts[i], q.host)
      [] matcher.kind = "RemoteIp" -> \E i \in 1..Len(matcher.ips) : q.remote_ip = matcher.ips[i]
      [] matcher.kind = "Protocol" -> \E i \in 1..Len(matcher.protocols) : eq_ignore_ascii_case(matcher.protocols[i], q.protocol)
      [] matcher.kind = "And"      -> evaluate_matcher_inner(matcher.left, q) /\ evaluate_matcher_inner(matcher.right, q)
      [] matcher.kind = "Or"       -> evaluate_matcher_inner(matcher.left, q) \/ evaluate_matcher_inner(matcher.right, q)
      [] matcher.kind = "Not"      -> ~evaluate_matcher_inner(matcher.inner, q)

\* The method constraint of match_request.
MethodAllowed(route, q) ==
    IsSome(route.methods) =>
        \E i \in 1..Len(Unwrap(route.methods)) : eq_ignore_ascii_case(Unwrap(route.methods)[i], q.method)

\* The two tests a candidate must pass in match_request.
Passes(route, q) ==
    /\ MethodAllowed(route, q)
    /\ IsSome(route.matcher) => evaluate_matcher_inner(Unwrap(route.matcher), q)

\* Router::match_request: the first candidate that passes, or None.
match_request(router, q) ==
    LET candidates == match_path(router, q.path)
        passing    == SelectSeq(candidates, LAMBDA i : Passes(router.all_routes[i], q))
    IN  IF passing = <<>> THEN None ELSE Some(passing[1])

HeaderNames == {"x-env"}

\* GET path on host, over plain HTTP, no headers, no query string.
PlainRequest(path, host) ==
    [path |-> path, method |-> "GET", headers |-> [n \in HeaderNames |-> None], host |-> host,
     remote_ip |-> "127.0.0.1", protocol |-> "http", query |-> [n \in {"debug"} |-> None]]

\* ------------------------------------------------------------------------
\* LoadBalancer (pingclair-proxy/src/load_balancer.rs) over pingora's
\* LoadBalancer<RoundRobin>
\* ------------------------------------------------------------------------
\* Upstream socket addresses, listed in ascending SocketAddr order.
UpstreamAddrs == <<"127.0.0.1:8001", "127.0.0.1:8002", "127.0.0.1:8003">>

\* Ord of Backend: by address.
AddrRank(a) == CHOOSE i \in 1..Len(UpstreamAddrs) : UpstreamAddrs[i] = a

Range(s) == {s[i] : i \in 1..Len(s)}

\* The iteration order of the BTreeSet<Backend> that try_from_iter fills.
RECURSIVE BTreeOrder(_)
BTreeOrder(S) ==
    IF S = {} THEN <<>>
    ELSE LET m == CHOOSE a \in S : \A b \in S \ {a} : AddrRank(a) < AddrRank(b)
         IN  <<m>> \o BTreeOrder(S \ {m})

\* A slip: the backends are kept in the order they were configured.
LoadBalancer_new_configured_order(upstreams, strategy) ==
    [backends |-> SelectSeq([i \in 1..Len(upstreams) |-> IF \E j \in 1..(i - 1) : upstreams[j] = upstreams[i]
                                                        THEN "" ELSE upstreams[i]],
                            LAMBDA a : a # "")]

\* LoadBalancer::new(upstreams, _strategy): the strategy is not used; the
\* backends are those of NativeLoadBalancer::try_from_iter.
LoadBalancer_new(upstreams, strategy) == [backends |-> BTreeOrder(Range(upstreams))]

\* The iteration limit handed to the native select.
max_iterations == 256

\* A slip: the first backend the iterator yields is returned whatever its
\* health.
unique_iter_any_health(backends, index, first, seen, steps, c, ready) ==
    IF backends = <<>> THEN [result |-> None, counter |-> c]
    ELSE [result |-> Some(backends[(index % Len(backends)) + 1]), counter |-> c]

\* The loop of the native select_with over UniqueIterator(WeightedIterator):
\* the first item is backends[index % len]; every later item takes a fresh
\* value of the round-robin counter c (fetch_add); an item is returned when
\* it was not seen before and is ready; the loop gives up after
\* max_iterations items.  The result carries the counter it leaves behind.
\* When no backend is ready the loop runs to its limit, taking one counter
\* value per remaining item; that run is given in closed form.
RECURSIVE unique_iter(_, _, _, _, _, _, _)
unique_iter(backends, index, first, seen, steps, c, ready) ==
    IF backends = <<>> THEN [result |-> None, counter |-> c]
    ELSE LET idx  == IF first THEN index ELSE c
             c2   == IF first THEN c ELSE c + 1
             item == backends[(idx % Len(backends)) + 1]
         IN  IF steps >= max_iterations THEN [result |-> None, counter |-> c2]
             ELSE IF item \notin seen /\ item \in ready THEN [result |-> Some(item), counter |-> c2]
             ELSE IF Range(backends) \cap ready = {}
                  THEN [result |-> None, counter |-> c2 + (max_iterations - steps)]
             ELSE unique_iter(backends, idx, FALSE, seen \cup {item}, steps + 1, c2, ready)

\* LoadBalancer::select(_key) = native select(b"", 256): creating the
\* iterator takes one value of the round-robin counter; the key is not used.
LoadBalancer_select(lb, key, c, ready) == unique_iter(lb.backends, c, TRUE, {}, 0, c + 1, ready)

\* ------------------------------------------------------------------------
\* ProxyState and PingclairProxy (pingclair-proxy/src/server.rs)
\* ------------------------------------------------------------------------
\* ProxyState::new builds a router and, per reverse-proxy route, a fresh
\* load balancer over a fresh upstream pool; id stands for the identity of
\* the Arcs it allocates.  The routes of the reload configurations are all
\* default routes, so the router has no path group and one insertion order.
ProxyState_new(config, id) ==
    [id             |-> id,
     config         |-> config,
     router         |-> Router_new(config.routes, CHOOSE order \in GroupOrders(config.routes) : TRUE),
     load_balancers |-> [i \in 1..Len(config.routes) |->
                            IF config.routes[i].handler.type = "reverse_proxy"
                            THEN Some([id |-> <<id, i>>, upstreams |-> config.routes[i].handler.upstreams])
                            ELSE None]]

EmptyProxy == [hosts |-> [h \in {} |-> None], default |-> None]

MapInsert(m, k, v) == [x \in (DOMAIN m) \cup {k} |-> IF x = k THEN v ELSE m[x]]

\* The plausible slip "insert only when absent" (HashMap::entry().or_insert).
add_server_keep_existing(proxy, config, id) ==
    LET state == ProxyState_new(config, id)
    IN  IF IsSome(config.name)
        THEN IF Unwrap(config.name) \in DOMAIN proxy.hosts THEN proxy
             ELSE [proxy EXCEPT !.hosts = MapInsert(proxy.hosts, Unwrap(config.name), state)]
        ELSE IF IsSome(proxy.default) THEN proxy ELSE [proxy EXCEPT !.default = Some(state)]

\* A slip that forgets the host map and always replaces the default.
add_server_default_only(proxy, config, id) ==
    [proxy EXCEPT !.default = Some(ProxyState_new(config, id))]

\* PingclairProxy::add_server
add_server(proxy, config, id) ==
    LET state == ProxyState_new(config, id)
    IN  IF IsSome(config.name)
        THEN [proxy EXCEPT !.hosts = MapInsert(proxy.hosts, Unwrap(config.name), state)]
        ELSE [proxy EXCEPT !.default = Some(state)]

\* PingclairProxy::get_state: exact host match, then the default.
get_state(proxy, host) ==
    IF host \in DOMAIN proxy.hosts THEN Some(proxy.hosts[host]) ELSE proxy.default

\* PingclairProxy::update_config(servers): replaces the ProxyState of every
\* virtual host named by servers (and the default), by add_server.
RECURSIVE update_config(_, _, _)
update_config(proxy, servers, id) ==
    IF servers = <<>> THEN proxy
    ELSE update_config(add_server(proxy, Head(servers), id), Tail(servers), id + 1)

\* The upstream counters that a freshly built ProxyState brings with it.
NewCounters(config, id) ==
    [k \in UNION {{<<id, i, u>> : u \in 1..Len(config.routes[i].handler.upstreams)} :
                     i \in {j \in 1..Len(config.routes) : config.routes[j].handler.type = "reverse_proxy"}} |-> 0]

RECURSIVE CountersOf(_, _)
CountersOf(servers, id) ==
    IF servers = <<>> THEN [k \in {} |-> 0]
    ELSE NewCounters(Head(servers), id) @@ CountersOf(Tail(servers), id + 1)

\* run_server start-up: every server is added to the proxy of each of its
\* listen addresses ("0.0.0.0:80" when it has none).
listen_addrs(server_config) ==
    IF server_config.listen = <<>> THEN <<Addr80>> ELSE server_config.listen

RECURSIVE Bindings(_)
Bindings(servers) ==
    IF servers = <<>> THEN <<>>
    ELSE [i \in 1..Len(listen_addrs(Head(servers))) |->
              [addr |-> listen_addrs(Head(servers))[i], config |-> Head(servers)]]
         \o Bindings(Tail(servers))

RECURSIVE Startup(_, _, _)
Startup(bindings, pp, id) ==
    IF bindings = <<>> THEN pp
    ELSE LET b     == Head(bindings)
             proxy == IF b.addr \in DOMAIN pp THEN pp[b.addr] ELSE EmptyProxy
         IN  Startup(Tail(bindings), MapInsert(pp, b.addr, add_server(proxy, b.config, id)), id + 1)

RECURSIVE StartupCounters(_, _)
StartupCounters(bindings, id) ==
    IF bindings = <<>> THEN [k \in {} |-> 0]
    ELSE NewCounters(Head(bindings).config, id) @@ StartupCounters(Tail(bindings), id + 1)

\* ------------------------------------------------------------------------
\* Requests: the ProxyHttp filter chain of PingclairProxy
\* ------------------------------------------------------------------------
Reqs == {"r1"}

NewCtx == [state |-> None, route |-> None, upstream |-> None,
           headers_up |-> {}, headers_down |-> {}]

BadUpstreamAddrs == {"backend:http"}

\* PingclairProxy::parse_upstream: None when the port does not parse.
parse_upstream(addr) == IF addr \in BadUpstreamAddrs THEN None ELSE Some(addr)

\* A slip that would look the virtual host up again instead of using the
\* snapshot held by the request context.
PeerState_lookup_again(r) == get_state(port_proxies[req_in[r].addr], req_in[r].host)

\* upstream_peer: `let state = ctx.state.as_ref().unwrap()`
PeerState(r) == ctx[r].state

\* HashMap::insert of every pair of new into a header map.
HeaderInsert(headers, new) ==
    {h \in headers : \A n \in new : n[1] # h[1]} \cup new

\* handle_config returns Ok(true): the handler wrote the response itself.
handle_config_handled(handler) == handler.type = "respond"

\* handle_config, Respond: the response written to the session.
handle_config_response(handler) ==
    [status |-> handler.status, headers |-> {<<"Content-Length", ToString(Len(handler.body))>>},
     by |-> "respond"]

\* handle_config, Headers { set, add: _, remove: _ }: the pairs of set are
\* inserted into ctx.headers_down; every other handler leaves it alone.
handle_config_headers_down(headers_down, handler) ==
    IF handler.type = "headers" THEN HeaderInsert(headers_down, handler.set) ELSE headers_down

\* What the client receives when a filter returns Err: no fail_to_proxy is
\* defined, and pingora's default answers an error of unset source with 500.
ErrorResponse(etype) == [status |-> 500, headers |-> {}, by |-> etype]

\* request_filter: resolve the virtual host, keep its state in the context,
\* match the route and run its handler.  A Respond handler answers at once
\* (Ok(true)); every other case falls through to upstream_peer (Ok(false)).
RequestFilter(r) ==
    /\ req_pc[r] = "new"
    /\ \E addr \in DOMAIN port_proxies, host \in ReqHosts :
         LET st == get_state(port_proxies[addr], host)
         IN  /\ req_in' = [req_in EXCEPT ![r] = [addr |-> addr, host |-> host]]
             /\ g_stale' = [g_stale EXCEPT ![r] = g_old_ids]
             /\ IF ~IsSome(st)
                THEN /\ ctx' = ctx
                     /\ resp' = resp
                     /\ req_pc' = [req_pc EXCEPT ![r] = "upstream_peer"]
                ELSE LET state == Unwrap(st)
                         m     == match_request(state.router, PlainRequest(<<"/">>, host))
                     IN  IF ~IsSome(m)
                         THEN /\ ctx' = [ctx EXCEPT ![r].state = st]
                              /\ resp' = resp
                              /\ req_pc' = [req_pc EXCEPT ![r] = "upstream_peer"]
                         ELSE LET handler == state.config.routes[Unwrap(m)].handler
                              IN  /\ ctx' = [ctx EXCEPT ![r].state = st, ![r].route = m,
                                                        ![r].headers_down =
                                                            handle_config_headers_down(@, handler)]
                                  /\ IF handle_config_handled(handler)
                                     THEN /\ resp' = [resp EXCEPT ![r] = Some(handle_config_response(handler))]
                                          /\ req_pc' = [req_pc EXCEPT ![r] = "done"]
                                     ELSE /\ resp' = resp
                                          /\ req_pc' = [req_pc EXCEPT ![r] = "upstream_peer"]
    /\ UNCHANGED <<port_proxies, next_arc, active_connections, rl_pc, rl_src, rl_todo,
                   rl_updated, rl_errors, rl_outcome, rl_count, g_before, g_clean,
                   g_replaced, g_old_ids, g_peer_saw>>
    /\ UNCHANGED <<sv_rr, sv_unhealthy, sv_started>>
    /\ UNCHANGED <<vars_auto, vars_acme, vars_gc, vars_store, vars_resolve, vars_router, vars_lb, vars_filter, vars_json, vars_ext>>

\* The value of the round-robin counter of a load balancer (0 when fresh).
CounterOf(id) == IF id \in DOMAIN sv_rr THEN sv_rr[id] ELSE 0

\* Backends::ready for the backends of a load balancer.
ReadyOf(id, backends) == {a \in Range(backends) : <<id, a>> \notin sv_unhealthy}

\* select_upstream: the route's load balancer, if it has one, selects with
\* the peer address as key.  The result carries the counter left behind.
select_upstream(state, route_idx) ==
    LET lb == IF route_idx \in DOMAIN state.load_balancers
              THEN state.load_balancers[route_idx] ELSE None
    IN  IF IsSome(lb)
        THEN LET native == LoadBalancer_new(Unwrap(lb).upstreams,
                                            state.config.routes[route_idx].handler.strategy)
             IN  LoadBalancer_select(native, Some(1), CounterOf(Unwrap(lb).id),
                                     ReadyOf(Unwrap(lb).id, native.backends))
        ELSE [result |-> None, counter |-> 0]

\* upstream_peer: no route -> ConnectNoRoute; otherwise select an upstream
\* from the load balancer of the context's state, count the connection and
\* take the proxy headers from the route's configuration; no upstream ->
\* ConnectNoRoute.
UpstreamPeer(r) ==
    /\ req_pc[r] = "upstream_peer"
    /\ g_peer_saw' = [g_peer_saw EXCEPT ![r] = get_state(port_proxies[req_in[r].addr], req_in[r].host)]
    /\ IF ~IsSome(ctx[r].route)
       THEN /\ req_pc' = [req_pc EXCEPT ![r] = "failed"]
            /\ resp' = [resp EXCEPT ![r] = Some(ErrorResponse("ConnectNoRoute"))]
            /\ UNCHANGED <<ctx, active_connections, sv_rr>>
       ELSE LET state     == Unwrap(PeerState(r))
                route_idx == Unwrap(ctx[r].route)
                lb        == state.load_balancers[route_idx]
                picked       == select_upstream(state, route_idx)
            IN  /\ sv_rr' = IF IsSome(lb) THEN MapInsert(sv_rr, Unwrap(lb).id, picked.counter) ELSE sv_rr
                /\ IF ~IsSome(picked.result)
                   THEN /\ req_pc' = [req_pc EXCEPT ![r] = "failed"]
                        /\ resp' = [resp EXCEPT ![r] = Some(ErrorResponse("ConnectNoRoute"))]
                        /\ UNCHANGED <<ctx, active_connections>>
                   ELSE LET addr    == Unwrap(picked.result)
                            u       == CHOOSE i \in 1..Len(Unwrap(lb).upstreams) : Unwrap(lb).upstreams[i] = addr
                            key     == <<Unwrap(lb).id[1], Unwrap(lb).id[2], u>>
                            handler == state.config.routes[route_idx].handler
                        IN  /\ active_connections' = [active_connections EXCEPT ![key] = @ + 1]
                            /\ ctx' = [ctx EXCEPT ![r].upstream = Some([lb |-> Unwrap(lb).id, idx |-> u, addr |-> addr]),
                                                  ![r].headers_up = handler.headers_up,
                                                  ![r].headers_down = handler.headers_down]
                            /\ IF IsSome(parse_upstream(addr))
                               THEN /\ req_pc' = [req_pc EXCEPT ![r] = "upstream_request_filter"]
                                    /\ resp' = resp
                               ELSE /\ req_pc' = [req_pc EXCEPT ![r] = "failed"]
                                    /\ resp' = [resp EXCEPT ![r] = Some(ErrorResponse("ConnectNoRoute"))]
    /\ UNCHANGED <<port_proxies, next_arc, req_in, rl_pc, rl_src, rl_todo, rl_updated,
                   rl_errors, rl_outcome, rl_count, g_before, g_clean, g_replaced,
                   g_old_ids, g_stale>>
    /\ UNCHANGED <<sv_unhealthy, sv_started>>
    /\ UNCHANGED <<vars_auto, vars_acme, vars_gc, vars_store, vars_resolve, vars_router, vars_lb, vars_filter, vars_json, vars_ext>>

\* upstream_request_filter: copies ctx.headers_up onto the upstream request.
UpstreamRequestFilter(r) ==
    /\ req_pc[r] = "upstream_request_filter"
    /\ req_pc' = [req_pc EXCEPT ![r] = "response_filter"]
    /\ UNCHANGED <<port_proxies, next_arc, active_connections, req_in, ctx, rl_pc, rl_src,
                   rl_todo, rl_updated, rl_errors, rl_outcome, rl_count, g_before, g_clean,
                   g_replaced, g_old_ids, g_stale, g_peer_saw>>
    /\ UNCHANGED <<vars_auto, vars_acme, vars_gc, vars_store, vars_resolve, vars_router, vars_serve, vars_lb, vars_filter, vars_json, vars_ext>>

\* The headers response_filter adds after those of the context.
ServerHeaders == {<<"Server", "Pingclair">>, <<"X-Content-Type-Options", "nosniff">>,
                  <<"X-Frame-Options", "DENY">>}

\* response_filter: releases the connection count and adds ctx.headers_down
\* and the server headers to the upstream's response (a 200 here).
ResponseFilter(r) ==
    /\ req_pc[r] = "response_filter"
    /\ active_connections' =
          IF IsSome(ctx[r].upstream)
          THEN LET up == Unwrap(ctx[r].upstream)
               IN  [active_connections EXCEPT ![<<up.lb[1], up.lb[2], up.idx>>] = @ - 1]
          ELSE active_connections
    /\ resp' = [resp EXCEPT ![r] = Some([status |-> 200,
                                         headers |-> HeaderInsert(HeaderInsert({}, ctx[r].headers_down), ServerHeaders),
                                         by |-> "upstream"])]
    /\ req_pc' = [req_pc EXCEPT ![r] = "done"]
    /\ UNCHANGED <<port_proxies, next_arc, req_in, ctx, rl_pc, rl_src, rl_todo, rl_updated,
                   rl_errors, rl_outcome, rl_count, g_before, g_clean, g_replaced,
                   g_old_ids, g_stale, g_peer_saw>>
    /\ UNCHANGED <<sv_rr, sv_unhealthy, sv_started>>
    /\ UNCHANGED <<vars_auto, vars_acme, vars_gc, vars_store, vars_resolve, vars_router, vars_lb, vars_filter, vars_json, vars_ext>>

\* ------------------------------------------------------------------------
\* Hot reload: SIGHUP handler (main.rs) and admin POST /config (pingclair-api)
\* ------------------------------------------------------------------------
Reloaders == {"sighup", "admin"}
Other(k) == IF k = "sighup" THEN "admin" ELSE "sighup"

\* A compiler that lets an invalid document through.
compile_file_unchecked(src) == [ok |-> TRUE, servers |-> src.servers]

\* pingclair_config::compile_file / compile_directory as the reload loop uses
\* it: Ok(new_config) for a valid document, Err otherwise.
compile_file(src) == [ok |-> src.valid, servers |-> src.servers]

\* serde_json::from_slice::<ServerConfig>(body) in the admin handler.
parse_body(body) == [ok |-> body.valid, servers |-> <<body.server>>]

first_listen(s) == IF s.listen = <<>> THEN Addr80 ELSE s.listen[1]

\* new_config_by_port: servers grouped by their first listen address.
group_by_port(servers) ==
    [a \in {first_listen(servers[i]) : i \in 1..Len(servers)} |->
        SelectSeq(servers, LAMBDA s : first_listen(s) = a)]

\* The state currently serving the virtual host a server would be installed as.
get_state_of(proxy, config) ==
    IF IsSome(config.name)
    THEN (IF Unwrap(config.name) \in DOMAIN proxy.hosts THEN Some(proxy.hosts[Unwrap(config.name)]) ELSE None)
    ELSE proxy.default

\* Ids of the states that installing `servers` on `proxy` takes out of service.
ReplacedIds(proxy, servers) ==
    {Unwrap(get_state_of(proxy, servers[i])).id :
        i \in {j \in 1..Len(servers) : IsSome(get_state_of(proxy, servers[j]))}}

StartReload(k, src) ==
    /\ rl_pc[k] = "idle"
    /\ rl_count["sighup"] + rl_count["admin"] < MaxReloads
    /\ rl_src' = [rl_src EXCEPT ![k] = src]
    /\ rl_count' = [rl_count EXCEPT ![k] = @ + 1]
    /\ rl_pc' = [rl_pc EXCEPT ![k] = "validate"]
    /\ rl_todo' = [rl_todo EXCEPT ![k] = <<>>]
    /\ rl_updated' = [rl_updated EXCEPT ![k] = 0]
    /\ rl_errors' = [rl_errors EXCEPT ![k] = 0]
    /\ rl_outcome' = [rl_outcome EXCEPT ![k] = "none"]
    /\ g_before' = [g_before EXCEPT ![k] = port_proxies]
    /\ g_clean' = [g_clean EXCEPT ![k] = TRUE]
    /\ g_replaced' = [g_replaced EXCEPT ![k] = {}]
    /\ UNCHANGED <<port_proxies, next_arc, active_connections, req_pc, req_in, ctx,
                   g_old_ids, g_stale, g_peer_saw>>
    /\ UNCHANGED <<vars_auto, vars_acme, vars_gc, vars_store, vars_resolve, vars_router, vars_serve, vars_lb, vars_filter, vars_json, vars_ext>>

\* stream.recv() delivers a SIGHUP.
SighupRecv == \E src \in SighupSources : StartReload("sighup", src)

\* Step 1/3: compile; an error leaves everything as it is.
SighupValidate ==
    /\ rl_pc["sighup"] = "validate"
    /\ LET result == compile_file(rl_src["sighup"])
       IN  IF result.ok
           THEN /\ rl_todo' = [rl_todo EXCEPT !["sighup"] = group_by_port(result.servers)]
                /\ rl_pc' = [rl_pc EXCEPT !["sighup"] = "apply"]
                /\ UNCHANGED rl_outcome
           ELSE /\ rl_outcome' = [rl_outcome EXCEPT !["sighup"] = "error"]
                /\ rl_pc' = [rl_pc EXCEPT !["sighup"] = "idle"]
                /\ UNCHANGED rl_todo
    /\ UNCHANGED <<port_proxies, next_arc, active_connections, req_pc, req_in, ctx, rl_src,
                   rl_updated, rl_errors, rl_count, g_before, g_clean, g_replaced,
                   g_old_ids, g_stale, g_peer_saw>>
    /\ UNCHANGED <<vars_auto, vars_acme, vars_gc, vars_store, vars_resolve, vars_router, vars_serve, vars_lb, vars_filter, vars_json, vars_ext>>

\* Step 3/3, one iteration of `for (addr, servers) in new_config_by_port`.
SighupApply ==
    /\ rl_pc["sighup"] = "apply"
    /\ \E addr \in DOMAIN rl_todo["sighup"] :
         LET servers == rl_todo["sighup"][addr]
             rest    == [a \in (DOMAIN rl_todo["sighup"]) \ {addr} |-> rl_todo["sighup"][a]]
         IN  /\ rl_todo' = [rl_todo EXCEPT !["sighup"] = rest]
             /\ IF addr \in DOMAIN port_proxies
                THEN /\ port_proxies' = [port_proxies EXCEPT ![addr] = update_config(@, servers, next_arc)]
                     /\ next_arc' = next_arc + Len(servers)
                     /\ active_connections' = CountersOf(servers, next_arc) @@ active_connections
                     /\ rl_updated' = [rl_updated EXCEPT !["sighup"] = @ + 1]
                     /\ g_replaced' = [g_replaced EXCEPT !["sighup"] = @ \cup ReplacedIds(port_proxies[addr], servers)]
                     /\ g_clean' = [g_clean EXCEPT !["admin"] = FALSE]
                     /\ UNCHANGED rl_errors
                ELSE /\ rl_errors' = [rl_errors EXCEPT !["sighup"] = @ + 1]
                     /\ UNCHANGED <<port_proxies, next_arc, active_connections, rl_updated,
                                    g_replaced, g_clean>>
    /\ UNCHANGED <<req_pc, req_in, ctx, rl_pc, rl_src, rl_outcome, rl_count, g_before,
                   g_old_ids, g_stale, g_peer_saw>>
    /\ UNCHANGED <<vars_auto, vars_acme, vars_gc, vars_store, vars_resolve, vars_router, vars_serve, vars_lb, vars_filter, vars_json, vars_ext>>

\* The reload summary after the loop.
SighupFinish ==
    /\ rl_pc["sighup"] = "apply"
    /\ DOMAIN rl_todo["sighup"] = {}
    /\ rl_outcome' = [rl_outcome EXCEPT !["sighup"] = IF rl_errors["sighup"] = 0 THEN "ok" ELSE "partial"]
    /\ rl_pc' = [rl_pc EXCEPT !["sighup"] = "idle"]
    /\ g_old_ids' = g_old_ids \cup g_replaced["sighup"]
    /\ UNCHANGED <<port_proxies, next_arc, active_connections, req_pc, req_in, ctx, rl_src,
                   rl_todo, rl_updated, rl_errors, rl_count, g_before, g_clean, g_replaced,
                   g_stale, g_peer_saw>>
    /\ UNCHANGED <<vars_auto, vars_acme, vars_gc, vars_store, vars_resolve, vars_router, vars_serve, vars_lb, vars_filter, vars_json, vars_ext>>

\* POST /config arrives at the admin server.
AdminPost ==
    \E body \in AdminBodies :
        StartReload("admin", [valid |-> body.valid, servers |-> <<body.server>>, server |-> body.server])

\* The body is deserialized; a bad body is answered 400.
AdminParse ==
    /\ rl_pc["admin"] = "validate"
    /\ LET parsed == parse_body(rl_src["admin"])
       IN  IF parsed.ok
           THEN /\ rl_todo' = [rl_todo EXCEPT !["admin"] = parsed.servers[1].listen]
                /\ rl_pc' = [rl_pc EXCEPT !["admin"] = "apply"]
                /\ UNCHANGED rl_outcome
           ELSE /\ rl_outcome' = [rl_outcome EXCEPT !["admin"] = "error"]
                /\ rl_pc' = [rl_pc EXCEPT !["admin"] = "idle"]
                /\ UNCHANGED rl_todo
    /\ UNCHANGED <<port_proxies, next_arc, active_connections, req_pc, req_in, ctx, rl_src,
                   rl_updated, rl_errors, rl_count, g_before, g_clean, g_replaced,
                   g_old_ids, g_stale, g_peer_saw>>
    /\ UNCHANGED <<vars_auto, vars_acme, vars_gc, vars_store, vars_resolve, vars_router, vars_serve, vars_lb, vars_filter, vars_json, vars_ext>>

\* One iteration of `for addr in &config.listen`.
AdminApply ==
    /\ rl_pc["admin"] = "apply"
    /\ rl_todo["admin"] # <<>>
    /\ LET addr   == Head(rl_todo["admin"])
           config == rl_src["admin"].server
       IN  /\ rl_todo' = [rl_todo EXCEPT !["admin"] = Tail(@)]
           /\ IF addr \in DOMAIN port_proxies
              THEN /\ port_proxies' = [port_proxies EXCEPT ![addr] = add_server(@, config, next_arc)]
                   /\ next_arc' = next_arc + 1
                   /\ active_connections' = NewCounters(config, next_arc) @@ active_connections
                   /\ rl_updated' = [rl_updated EXCEPT !["admin"] = @ + 1]
                   /\ g_replaced' = [g_replaced EXCEPT !["admin"] = @ \cup ReplacedIds(port_proxies[addr], <<config>>)]
                   /\ g_clean' = [g_clean EXCEPT !["sighup"] = FALSE]
              ELSE UNCHANGED <<port_proxies, next_arc, active_connections, rl_updated,
                               g_replaced, g_clean>>
    /\ UNCHANGED <<req_pc, req_in, ctx, rl_pc, rl_src, rl_errors, rl_outcome, rl_count,
                   g_before, g_old_ids, g_stale, g_peer_saw>>
    /\ UNCHANGED <<vars_auto, vars_acme, vars_gc, vars_store, vars_resolve, vars_router, vars_serve, vars_lb, vars_filter, vars_json, vars_ext>>

\* 200 when at least one listener was updated, 404 otherwise.
AdminFinish ==
    /\ rl_pc["admin"] = "apply"
    /\ rl_todo["admin"] = <<>>
    /\ rl_outcome' = [rl_outcome EXCEPT !["admin"] = IF rl_updated["admin"] > 0 THEN "ok" ELSE "not_found"]
    /\ rl_pc' = [rl_pc EXCEPT !["admin"] = "idle"]
    /\ g_old_ids' = g_old_ids \cup g_replaced["admin"]
    /\ UNCHANGED <<port_proxies, next_arc, active_connections, req_pc, req_in, ctx, rl_src,
                   rl_todo, rl_updated, rl_errors, rl_count, g_before, g_clean, g_replaced,
                   g_stale, g_peer_saw>>
    /\ UNCHANGED <<vars_auto, vars_acme, vars_gc, vars_store, vars_resolve, vars_router, vars_serve, vars_lb, vars_filter, vars_json, vars_ext>>

\* ------------------------------------------------------------------------
\* AutoHTTPS: certificate store, issuance guard, certificate resolution
\* (pingclair-tls/src/auto_https.rs, cert_store.rs, manager.rs, main.rs)
\* ------------------------------------------------------------------------
MaxTicks == 2
MaxHandshakes == 2

Domains == {"a.com", "b.com"}
Tasks == {"t1", "t2"}

RENEWAL_WINDOW_SECS == 30 * 24 * 60 * 60
CERT_LIFETIME_SECS == 89 * 24 * 60 * 60
OPENSSL_CACHE_TTL_SECS == 3600

\* The clock advances in steps of thirty days.
TickStep == 30 * 24 * 60 * 60

\* Certificate::needs_renewal
needs_renewal(cert, current) == cert.expires_at - current < RENEWAL_WINDOW_SECS

\* primary_domain.replace('.', "_") followed by ".json"
safe_filename(domain) ==
    CASE domain = "a.com" -> "a_com.json"
      [] domain = "b.com" -> "b_com.json"

FileNames == {safe_filename(d) : d \in Domains}

\* The Certificate that obtain_certificate builds on success.
NewCertificate(domains, serial, current) ==
    [cert_pem |-> serial, key_pem |-> serial, domains |-> domains,
     expires_at |-> current + CERT_LIFETIME_SECS]

\* CertStore::store: write the primary domain's file, then index every SAN.
CertStore_store_files(files, cert) ==
    [files EXCEPT ![safe_filename(cert.domains[1])] = Some(cert)]

CertStore_store_cache(cache, cert) ==
    [d \in DOMAIN cache |->
        IF \E i \in 1..Len(cert.domains) : cert.domains[i] = d THEN Some(cert) ELSE cache[d]]

HsFrameBase == UNCHANGED <<vars_reload, vars_acme, vars_gc, vars_store, vars_resolve, vars_router, vars_serve, vars_lb, vars_filter, vars_json, vars_ext, restarted, g_files_at_restart>>

\* The frame of a step that takes no guard on openssl_cache.
HsFrame == HsFrameBase /\ UNCHANGED <<cache_guard, g_read_in_issuance>>

\* A slip: the read guard is bound for the whole callback, so on a miss it
\* is still held while resolve_pem runs.
guard_after_lookup_kept(hit) == IF hit THEN "none" ELSE "read"

\* certificate_callback step 1: the read guard lives in a block of its own
\* and is dropped at the end of it, on a hit (return) and on a miss.
guard_after_lookup(hit) == "none"

Issuing(d) == \E u \in Tasks : hs_pc[u] = "gc_acme" /\ hs_sni[u] = d

\* A TLS client hello arrives: certificate_callback reads the SNI and the
\* clock, then tries the cache of parsed OpenSSL objects.
CertificateCallback(t) ==
    /\ hs_pc[t] = "idle"
    /\ hs_count < MaxHandshakes
    /\ \A u \in Tasks : cache_guard[u] # "write"
    /\ hs_count' = hs_count + 1
    /\ \E sni \in Domains \cup {""} :
         /\ hs_sni' = [hs_sni EXCEPT ![t] = sni]
         /\ cache_guard' = [cache_guard EXCEPT ![t] =
                IF sni = "" THEN "none"
                ELSE guard_after_lookup(IsSome(openssl_cache[sni]) /\ Unwrap(openssl_cache[sni]).expires_at > now)]
         /\ g_read_in_issuance' = [g_read_in_issuance EXCEPT ![t] =
                sni # "" /\ \E d \in Domains \ {sni} : Issuing(d)]
         /\ hs_time' = [hs_time EXCEPT ![t] = now]
         /\ hs_prior' = [hs_prior EXCEPT ![t] = None]
         /\ hs_result' = [hs_result EXCEPT ![t] = None]
         /\ g_acme_failed' = [g_acme_failed EXCEPT ![t] = FALSE]
         /\ IF sni = ""
            THEN /\ hs_served' = [hs_served EXCEPT ![t] = None]
                 /\ hs_pc' = [hs_pc EXCEPT ![t] = "done"]
            ELSE IF IsSome(openssl_cache[sni]) /\ Unwrap(openssl_cache[sni]).expires_at > now
                 THEN /\ hs_served' = [hs_served EXCEPT ![t] = Some(Unwrap(openssl_cache[sni]).cert)]
                      /\ hs_pc' = [hs_pc EXCEPT ![t] = "done"]
                 ELSE /\ hs_served' = [hs_served EXCEPT ![t] = None]
                      /\ hs_pc' = [hs_pc EXCEPT ![t] = "gc_store"]
    /\ UNCHANGED <<now, ticks, cert_cache, cert_files, processing, openssl_cache, issued>>
    /\ HsFrameBase

\* get_certificate step 1: a stored certificate that does not need renewal
\* is returned at once.
GetCertStoreCheck(t) ==
    /\ hs_pc[t] = "gc_store"
    /\ LET cert == cert_cache[hs_sni[t]]
       IN  /\ hs_prior' = [hs_prior EXCEPT ![t] = cert]
           /\ IF IsSome(cert) /\ ~needs_renewal(Unwrap(cert), now)
              THEN /\ hs_result' = [hs_result EXCEPT ![t] = cert]
                   /\ hs_pc' = [hs_pc EXCEPT ![t] = "cb_install"]
              ELSE /\ hs_pc' = [hs_pc EXCEPT ![t] = "gc_check"]
                   /\ UNCHANGED hs_result
    /\ UNCHANGED <<now, ticks, cert_cache, cert_files, processing, openssl_cache, issued,
                   hs_sni, hs_time, hs_served, hs_count, g_acme_failed>>
    /\ HsFrame

\* get_certificate step 2: under the read lock, fail when the domain is
\* already being processed.  resolve_pem turns the error into None and the
\* callback then sets no certificate.
GetCertConcurrencyCheck(t) ==
    /\ hs_pc[t] = "gc_check"
    /\ IF hs_sni[t] \in processing
       THEN hs_pc' = [hs_pc EXCEPT ![t] = "done"]
       ELSE hs_pc' = [hs_pc EXCEPT ![t] = "gc_mark"]
    /\ UNCHANGED <<now, ticks, cert_cache, cert_files, processing, openssl_cache, issued,
                   hs_sni, hs_time, hs_prior, hs_result, hs_served, hs_count, g_acme_failed>>
    /\ HsFrame

\* get_certificate step 3: under the write lock, mark the domain.
GetCertMark(t) ==
    /\ hs_pc[t] = "gc_mark"
    /\ processing' = processing \cup {hs_sni[t]}
    /\ hs_pc' = [hs_pc EXCEPT ![t] = "gc_acme"]
    /\ UNCHANGED <<now, ticks, cert_cache, cert_files, openssl_cache, issued,
                   hs_sni, hs_time, hs_prior, hs_result, hs_served, hs_count, g_acme_failed>>
    /\ HsFrame

\* get_certificate step 4: obtain_certificate(&[domain]) returns, with a
\* fresh certificate or with an AcmeError.
GetCertAcme(t) ==
    /\ hs_pc[t] = "gc_acme"
    /\ \E ok \in BOOLEAN :
         IF ok
         THEN /\ hs_result' = [hs_result EXCEPT ![t] = Some(NewCertificate(<<hs_sni[t]>>, issued + 1, now))]
              /\ issued' = issued + 1
              /\ UNCHANGED g_acme_failed
         ELSE /\ hs_result' = [hs_result EXCEPT ![t] = None]
              /\ g_acme_failed' = [g_acme_failed EXCEPT ![t] = TRUE]
              /\ UNCHANGED issued
    /\ hs_pc' = [hs_pc EXCEPT ![t] = "gc_unmark"]
    /\ UNCHANGED <<now, ticks, cert_cache, cert_files, processing, openssl_cache,
                   hs_sni, hs_time, hs_prior, hs_served, hs_count>>
    /\ HsFrame

\* get_certificate step 5: unmark the domain, then `result?`.
GetCertUnmark(t) ==
    /\ hs_pc[t] = "gc_unmark"
    /\ processing' = processing \ {hs_sni[t]}
    /\ hs_pc' = [hs_pc EXCEPT ![t] = IF IsSome(hs_result[t]) THEN "gc_persist" ELSE "done"]
    /\ UNCHANGED <<now, ticks, cert_cache, cert_files, openssl_cache, issued,
                   hs_sni, hs_time, hs_prior, hs_result, hs_served, hs_count, g_acme_failed>>
    /\ HsFrame

\* get_certificate step 6: store.store(&cert), then Ok(cert).
GetCertPersist(t) ==
    /\ hs_pc[t] = "gc_persist"
    /\ cert_files' = CertStore_store_files(cert_files, Unwrap(hs_result[t]))
    /\ cert_cache' = CertStore_store_cache(cert_cache, Unwrap(hs_result[t]))
    /\ hs_pc' = [hs_pc EXCEPT ![t] = "cb_install"]
    /\ UNCHANGED <<now, ticks, processing, openssl_cache, issued,
                   hs_sni, hs_time, hs_prior, hs_result, hs_served, hs_count, g_acme_failed>>
    /\ HsFrame

\* certificate_callback steps 3 and 4: the PEM returned by resolve_pem is
\* parsed, set on the connection and cached for OPENSSL_CACHE_TTL_SECS.
CallbackInstall(t) ==
    /\ hs_pc[t] = "cb_install"
    /\ \A u \in Tasks \ {t} : cache_guard[u] = "none"
    /\ cache_guard' = [cache_guard EXCEPT ![t] = "none"]
    /\ UNCHANGED g_read_in_issuance
    /\ hs_served' = [hs_served EXCEPT ![t] = hs_result[t]]
    /\ openssl_cache' = [openssl_cache EXCEPT ![hs_sni[t]] =
           Some([cert |-> Unwrap(hs_result[t]), expires_at |-> hs_time[t] + OPENSSL_CACHE_TTL_SECS])]
    /\ hs_pc' = [hs_pc EXCEPT ![t] = "done"]
    /\ UNCHANGED <<now, ticks, cert_cache, cert_files, processing, issued,
                   hs_sni, hs_time, hs_prior, hs_result, hs_count, g_acme_failed>>
    /\ HsFrameBase

\* The handshake is over; the task can take another client hello.
HandshakeEnd(t) ==
    /\ hs_pc[t] = "done"
    /\ hs_count < MaxHandshakes
    /\ hs_pc' = [hs_pc EXCEPT ![t] = "idle"]
    /\ cache_guard' = [cache_guard EXCEPT ![t] = "none"]
    /\ UNCHANGED g_read_in_issuance
    /\ UNCHANGED <<now, ticks, cert_cache, cert_files, processing, openssl_cache, issued,
                   hs_sni, hs_time, hs_prior, hs_result, hs_served, hs_count, g_acme_failed>>
    /\ HsFrameBase

\* Time passes.
Tick ==
    /\ ticks < MaxTicks
    /\ ticks' = ticks + 1
    /\ now' = now + TickStep
    /\ UNCHANGED <<cert_cache, cert_files, processing, openssl_cache, issued, hs_pc, hs_sni,
                   hs_time, hs_prior, hs_result, hs_served, hs_count, g_acme_failed>>
    /\ HsFrame

\* The process stops and starts again: run_server builds a new TlsManager
\* (CertStore::new and AutoHttps::new: empty cache, empty processing set) and
\* a new DynamicCertResolver; nothing reads the certificate directory.  The
\* files stay as they are.
Restart ==
    /\ restarted' = TRUE
    /\ g_files_at_restart' = cert_files
    /\ cert_cache' = [d \in Domains |-> None]
    /\ processing' = {}
    /\ openssl_cache' = [d \in Domains |-> None]
    /\ hs_pc' = [t \in Tasks |-> "idle"]
    /\ hs_sni' = [t \in Tasks |-> ""]
    /\ hs_time' = [t \in Tasks |-> 0]
    /\ hs_prior' = [t \in Tasks |-> None]
    /\ hs_result' = [t \in Tasks |-> None]
    /\ hs_served' = [t \in Tasks |-> None]
    /\ g_acme_failed' = [t \in Tasks |-> FALSE]
    /\ cache_guard' = [t \in Tasks |-> "none"]
    /\ g_read_in_issuance' = [t \in Tasks |-> FALSE]
    /\ UNCHANGED <<now, ticks, cert_files, issued, hs_count>>
    /\ UNCHANGED <<vars_reload, vars_acme, vars_gc, vars_store, vars_resolve, vars_router, vars_serve, vars_lb, vars_filter, vars_json, vars_ext>>

InitAuto ==
    /\ now = 0
    /\ ticks = 0
    /\ cert_cache = [d \in Domains |-> None]
    /\ cert_files = [f \in FileNames |-> None]
    /\ processing = {}
    /\ openssl_cache = [d \in Domains |-> None]
    /\ issued = 0
    /\ hs_pc = [t \in Tasks |-> "idle"]
    /\ hs_sni = [t \in Tasks |-> ""]
    /\ hs_time = [t \in Tasks |-> 0]
    /\ hs_prior = [t \in Tasks |-> None]
    /\ hs_result = [t \in Tasks |-> None]
    /\ hs_served = [t \in Tasks |-> None]
    /\ hs_count = 0
    /\ g_acme_failed = [t \in Tasks |-> FALSE]
    /\ cache_guard = [t \in Tasks |-> "none"]
    /\ g_read_in_issuance = [t \in Tasks |-> FALSE]
    /\ restarted = FALSE
    /\ g_files_at_restart = [f \in FileNames |-> None]

NextAuto ==
    \/ \E t \in Tasks : CertificateCallback(t)
    \/ \E t \in Tasks : GetCertStoreCheck(t)
    \/ \E t \in Tasks : GetCertConcurrencyCheck(t)
    \/ \E t \in Tasks : GetCertMark(t)
    \/ \E t \in Tasks : GetCertAcme(t)
    \/ \E t \in Tasks : GetCertUnmark(t)
    \/ \E t \in Tasks : GetCertPersist(t)
    \/ \E t \in Tasks : CallbackInstall(t)
    \/ \E t \in Tasks : HandshakeEnd(t)
    \/ Tick
    \/ Restart

\* C1: at most one ACME issuance per domain is in flight at any time.
C1_SingleIssuancePerDomain ==
    \A d \in Domains : Cardinality({t \in Tasks : hs_pc[t] = "gc_acme" /\ hs_sni[t] = d}) <= 1

\* C6: when issuance fails in a resolution for which the store held an
\* unexpired certificate, that resolution still serves a certificate.
C6_PreviousCertStillServed ==
    \A t \in Tasks :
        (/\ hs_pc[t] = "done"
         /\ g_acme_failed[t]
         /\ IsSome(hs_prior[t])
         /\ Unwrap(hs_prior[t]).expires_at > now)
        => IsSome(hs_served[t])

\* C13: after a restart, get_certificate does not call the ACME client for a
\* domain whose certificate was in the store directory at the restart and
\* does not need renewal.
C13_RestartResolvesFromStore ==
    \A t \in Tasks :
        (restarted /\ hs_pc[t] = "gc_acme") =>
            LET file == g_files_at_restart[safe_filename(hs_sni[t])]
            IN  ~(IsSome(file) /\ ~needs_renewal(Unwrap(file), now))

MaxOrders == 1
\* Background tasks spawned by the challenge handler during one run.
MaxTasks == 4

Instances == {1, 2}
DomainLists == {<<"a.com">>, <<"a.com", "b.com">>}
AllTokens == {<<d, n>> : d \in Domains, n \in 1..MaxOrders}

\* The ChallengeResponse built for the authorization of `domain` in order n;
\* the ACME server picks a fresh token per authorization.
ChallengeResponse(domain, n) ==
    [domain |-> domain, challenge_type |-> "Http01", token |-> <<domain, n>>,
     key_authorization |-> <<"key-auth", domain, n>>]

EmptyTokens == [k \in AllTokens |-> None]

\* serde_json::to_string(&TokenStorage): a complete JSON document with one
\* member per token.
Serialize(map) ==
    [complete |-> TRUE,
     members  |-> {<<k, Unwrap(map[k]).key_authorization, Unwrap(map[k]).created_at>> :
                      k \in {x \in DOMAIN map : IsSome(map[x])}}]

\* The file as fs::write leaves it between creating (truncating) it and
\* writing the document.
TruncatedFile == [complete |-> FALSE, members |-> {}]

\* serde_json::from_str::<TokenStorage>: Err (None) on an incomplete document.
Deserialize(json) ==
    IF ~json.complete THEN None
    ELSE Some([k \in AllTokens |->
                 IF \E e \in json.members : e[1] = k
                 THEN LET e == CHOOSE x \in json.members : x[1] = k
                      IN  Some([key_authorization |-> e[2], created_at |-> e[3]])
                 ELSE None])

\* PersistentChallengeHandler::new, loading: the file's tokens when the file
\* exists and parses (`if let Ok(stored)`), an empty map otherwise.
load_tokens(file) ==
    IF IsSome(file) /\ IsSome(Deserialize(Unwrap(file)))
    THEN Unwrap(Deserialize(Unwrap(file)))
    ELSE EmptyTokens

\* get_token of both handlers
get_token(inst, token) ==
    IF IsSome(tokens[inst][token])
    THEN Some(Unwrap(tokens[inst][token]).key_authorization)
    ELSE None

AcmeFrame == UNCHANGED <<vars_reload, vars_auto, vars_gc, vars_store, vars_resolve, vars_router, vars_serve, vars_lb, vars_filter, vars_json, vars_ext>>

Spawn(tasks, op, c) ==
    Append(tasks, [op |-> op, token |-> c.token, key_auth |-> c.key_authorization, pc |-> "lock"])

RECURSIVE SpawnAll(_, _, _)
SpawnAll(tasks, op, cs) ==
    IF cs = <<>> THEN tasks ELSE SpawnAll(Spawn(tasks, op, Head(cs)), op, Tail(cs))

\* TlsManager::new (persistent handler: no file yet, save_tokens creates it)
\* or TlsManager::new_with_memory_challenges.
NewChallengeHandler ==
    /\ handler_kind = "none"
    /\ \E kind \in {"memory", "persistent"} :
         /\ handler_kind' = kind
         /\ challenge_file' = IF kind = "persistent" THEN Some(Serialize(EmptyTokens)) ELSE None
    /\ inst_pc' = [inst_pc EXCEPT ![1] = "ready"]
    /\ UNCHANGED <<tokens, bg, ob_pc, ob_domains, ob_i, ob_state, ob_result, active_challenges,
                   orders, g_deployed, g_cleaned, g_ready_told, g_stored_at_load>>
    /\ AcmeFrame

\* obtain_certificate is called.
ObtainCertificate ==
    /\ inst_pc[1] = "ready"
    /\ ob_pc \in {"idle", "returned"}
    /\ orders < MaxOrders
    /\ \E domains \in DomainLists : ob_domains' = domains
    /\ ob_pc' = "account"
    /\ ob_i' = 1
    /\ ob_state' = "none"
    /\ ob_result' = "none"
    /\ active_challenges' = <<>>
    /\ UNCHANGED <<handler_kind, tokens, inst_pc, challenge_file, bg, orders, g_deployed,
                   g_cleaned, g_ready_told, g_stored_at_load>>
    /\ AcmeFrame

\* 2. ensure_account(...).await?
EnsureAccount ==
    /\ ob_pc = "account"
    /\ \E ok \in BOOLEAN :
         IF ok THEN ob_pc' = "order" /\ UNCHANGED ob_result
               ELSE ob_pc' = "returned" /\ ob_result' = "err"
    /\ UNCHANGED <<handler_kind, tokens, inst_pc, challenge_file, bg, ob_domains, ob_i,
                   ob_state, active_challenges, orders, g_deployed, g_cleaned,
                   g_ready_told, g_stored_at_load>>
    /\ AcmeFrame

\* 3. account.new_order(...).await?
NewOrder ==
    /\ ob_pc = "order"
    /\ \E ok \in BOOLEAN :
         IF ok THEN ob_pc' = "auth" /\ orders' = orders + 1 /\ UNCHANGED ob_result
               ELSE ob_pc' = "returned" /\ ob_result' = "err" /\ UNCHANGED orders
    /\ UNCHANGED <<handler_kind, tokens, inst_pc, challenge_file, bg, ob_domains, ob_i,
                   ob_state, active_challenges, g_deployed, g_cleaned, g_ready_told,
                   g_stored_at_load>>
    /\ AcmeFrame

\* 4. one turn of `while let Some(auth_result) = auths_stream.next().await`
\* up to and including handler.deploy and active_challenges.push.
NextAuthorization ==
    /\ ob_pc = "auth"
    /\ IF ob_i > Len(ob_domains)
       THEN /\ ob_pc' = "poll"
            /\ UNCHANGED <<ob_i, ob_result, active_challenges, bg, g_deployed>>
       ELSE \E outcome \in {"fetch_failed", "already_valid", "not_offered", "pending"} :
              CASE outcome \in {"fetch_failed", "not_offered"} ->
                     /\ ob_pc' = "returned"
                     /\ ob_result' = "err"
                     /\ UNCHANGED <<ob_i, active_challenges, bg, g_deployed>>
                [] outcome = "already_valid" ->
                     /\ ob_i' = ob_i + 1
                     /\ UNCHANGED <<ob_pc, ob_result, active_challenges, bg, g_deployed>>
                [] outcome = "pending" ->
                     LET response == ChallengeResponse(ob_domains[ob_i], orders)
                     IN  /\ Len(bg) + Len(active_challenges) + 2 <= MaxTasks
                         /\ bg' = Spawn(bg, "store", response)
                         /\ g_deployed' = g_deployed \cup {response}
                         /\ active_challenges' = Append(active_challenges, response)
                         /\ ob_pc' = "set_ready"
                         /\ UNCHANGED <<ob_i, ob_result>>
    /\ UNCHANGED <<handler_kind, tokens, inst_pc, challenge_file, ob_domains, ob_state,
                   orders, g_cleaned, g_ready_told, g_stored_at_load>>
    /\ AcmeFrame

\* 4c. challenge.set_ready().await?
SetReady ==
    /\ ob_pc = "set_ready"
    /\ \E ok \in BOOLEAN :
         IF ok
         THEN /\ g_ready_told' = g_ready_told \cup {active_challenges[Len(active_challenges)]}
              /\ ob_i' = ob_i + 1
              /\ ob_pc' = "auth"
              /\ UNCHANGED ob_result
         ELSE /\ ob_pc' = "returned"
              /\ ob_result' = "err"
              /\ UNCHANGED <<g_ready_told, ob_i>>
    /\ UNCHANGED <<handler_kind, tokens, inst_pc, challenge_file, bg, ob_domains, ob_state,
                   active_challenges, orders, g_deployed, g_cleaned, g_stored_at_load>>
    /\ AcmeFrame

\* 5. order.poll_ready(&retry_policy).await?
PollReady ==
    /\ ob_pc = "poll"
    /\ \E out \in {"error", "Ready", "Valid", "Invalid"} :
         IF out = "error"
         THEN ob_pc' = "returned" /\ ob_result' = "err" /\ UNCHANGED ob_state
         ELSE ob_pc' = "cleanup" /\ ob_state' = out /\ UNCHANGED ob_result
    /\ UNCHANGED <<handler_kind, tokens, inst_pc, challenge_file, bg, ob_domains, ob_i,
                   active_challenges, orders, g_deployed, g_cleaned, g_ready_told,
                   g_stored_at_load>>
    /\ AcmeFrame

\* `for challenge in &active_challenges { handler.cleanup(challenge) }`, then
\* the check of the order state.
CleanupChallenges ==
    /\ ob_pc = "cleanup"
    /\ bg' = SpawnAll(bg, "remove", active_challenges)
    /\ g_cleaned' = g_cleaned \cup {active_challenges[i] : i \in 1..Len(active_challenges)}
    /\ IF ob_state \notin {"Ready", "Valid"}
       THEN ob_pc' = "returned" /\ ob_result' = "err"
       ELSE ob_pc' = "finalize" /\ UNCHANGED ob_result
    /\ UNCHANGED <<handler_kind, tokens, inst_pc, challenge_file, ob_domains, ob_i, ob_state,
                   active_challenges, orders, g_deployed, g_ready_told, g_stored_at_load>>
    /\ AcmeFrame

\* 6. order.finalize().await?
Finalize ==
    /\ ob_pc = "finalize"
    /\ \E ok \in BOOLEAN :
         IF ok THEN ob_pc' = "download" /\ UNCHANGED ob_result
               ELSE ob_pc' = "returned" /\ ob_result' = "err"
    /\ UNCHANGED <<handler_kind, tokens, inst_pc, challenge_file, bg, ob_domains, ob_i,
                   ob_state, active_challenges, orders, g_deployed, g_cleaned,
                   g_ready_told, g_stored_at_load>>
    /\ AcmeFrame

\* order.poll_certificate(&retry_policy).await?, then Ok(Certificate)
PollCertificate ==
    /\ ob_pc = "download"
    /\ \E ok \in BOOLEAN : ob_result' = IF ok THEN "ok" ELSE "err"
    /\ ob_pc' = "returned"
    /\ UNCHANGED <<handler_kind, tokens, inst_pc, challenge_file, bg, ob_domains, ob_i,
                   ob_state, active_challenges, orders, g_deployed, g_cleaned,
                   g_ready_told, g_stored_at_load>>
    /\ AcmeFrame

\* save_tokens holds the read lock from its first line to its return, the
\* file write included.
ReadLocked == gc_pc = "write" \/ \E j \in 1..Len(bg) : bg[j].pc = "write"

\* The task spawned by deploy takes the write lock and inserts the entry
\* (store_token; MemoryChallengeHandler::deploy ends here).
StoreInsert(i) ==
    /\ bg[i].op = "store"
    /\ bg[i].pc = "lock"
    /\ ~ReadLocked
    /\ tokens' = [tokens EXCEPT ![1][bg[i].token] =
                     Some([key_authorization |-> bg[i].key_auth, created_at |-> now])]
    /\ bg' = [bg EXCEPT ![i].pc = IF handler_kind = "persistent" THEN "save" ELSE "finished"]
    /\ UNCHANGED <<handler_kind, inst_pc, challenge_file, ob_pc, ob_domains, ob_i, ob_state,
                   ob_result, active_challenges, orders, g_deployed, g_cleaned,
                   g_ready_told, g_stored_at_load>>
    /\ AcmeFrame

\* The task spawned by cleanup takes the write lock and removes the entry
\* (remove_token; MemoryChallengeHandler::cleanup ends here).
RemoveToken(i) ==
    /\ bg[i].op = "remove"
    /\ bg[i].pc = "lock"
    /\ ~ReadLocked
    /\ tokens' = [tokens EXCEPT ![1][bg[i].token] = None]
    /\ bg' = [bg EXCEPT ![i].pc = IF handler_kind = "persistent" THEN "save" ELSE "finished"]
    /\ UNCHANGED <<handler_kind, inst_pc, challenge_file, ob_pc, ob_domains, ob_i, ob_state,
                   ob_result, active_challenges, orders, g_deployed, g_cleaned,
                   g_ready_told, g_stored_at_load>>
    /\ AcmeFrame

\* save_tokens, first half: take the read lock, serialize the map, and
\* fs::write creates (truncates) the file.
SaveTruncate(i) ==
    /\ bg[i].pc = "save"
    /\ challenge_file' = Some(TruncatedFile)
    /\ bg' = [bg EXCEPT ![i].pc = "write"]
    /\ UNCHANGED <<handler_kind, tokens, inst_pc, ob_pc, ob_domains, ob_i, ob_state,
                   ob_result, active_challenges, orders, g_deployed, g_cleaned,
                   g_ready_told, g_stored_at_load>>
    /\ AcmeFrame

\* save_tokens, second half: fs::write writes the document; the lock is
\* released on return.
SaveTokens(i) ==
    /\ bg[i].pc = "write"
    /\ challenge_file' = Some(Serialize(tokens[1]))
    /\ bg' = [bg EXCEPT ![i].pc = "finished"]
    /\ UNCHANGED <<handler_kind, tokens, inst_pc, ob_pc, ob_domains, ob_i, ob_state,
                   ob_result, active_challenges, orders, g_deployed, g_cleaned,
                   g_ready_told, g_stored_at_load>>
    /\ AcmeFrame

\* Challenges whose store task has finished and that were not cleaned up.
DurablyStored ==
    {c \in g_deployed \ g_cleaned :
        \E i \in 1..Len(bg) : bg[i].op = "store" /\ bg[i].token = c.token /\ bg[i].pc = "finished"}

\* PersistentChallengeHandler::new on a second instance over the same
\* storage path: read and parse the file.
NewHandlerLoad ==
    /\ handler_kind = "persistent"
    /\ inst_pc[2] = "absent"
    /\ tokens' = [tokens EXCEPT ![2] = load_tokens(challenge_file)]
    /\ inst_pc' = [inst_pc EXCEPT ![2] = "loaded"]
    /\ g_stored_at_load' = [g_stored_at_load EXCEPT ![2] = DurablyStored]
    /\ UNCHANGED <<handler_kind, challenge_file, bg, ob_pc, ob_domains, ob_i, ob_state,
                   ob_result, active_challenges, orders, g_deployed, g_cleaned, g_ready_told>>
    /\ AcmeFrame

\* PersistentChallengeHandler::new, `handler.save_tokens().await?`
NewHandlerSave ==
    /\ inst_pc[2] = "loaded"
    /\ challenge_file' = Some(Serialize(tokens[2]))
    /\ inst_pc' = [inst_pc EXCEPT ![2] = "ready"]
    /\ UNCHANGED <<handler_kind, tokens, bg, ob_pc, ob_domains, ob_i, ob_state, ob_result,
                   active_challenges, orders, g_deployed, g_cleaned, g_ready_told,
                   g_stored_at_load>>
    /\ AcmeFrame

InitAcme ==
    /\ handler_kind = "none"
    /\ tokens = [i \in Instances |-> EmptyTokens]
    /\ inst_pc = [i \in Instances |-> "absent"]
    /\ challenge_file = None
    /\ bg = <<>>
    /\ ob_pc = "idle"
    /\ ob_domains = <<>>
    /\ ob_i = 1
    /\ ob_state = "none"
    /\ ob_result = "none"
    /\ active_challenges = <<>>
    /\ orders = 0
    /\ g_deployed = {}
    /\ g_cleaned = {}
    /\ g_ready_told = {}
    /\ g_stored_at_load = [i \in Instances |-> {}]

NextAcme ==
    \/ NewChallengeHandler
    \/ ObtainCertificate
    \/ EnsureAccount
    \/ NewOrder
    \/ NextAuthorization
    \/ SetReady
    \/ PollReady
    \/ CleanupChallenges
    \/ Finalize
    \/ PollCertificate
    \/ \E i \in 1..Len(bg) : StoreInsert(i)
    \/ \E i \in 1..Len(bg) : RemoveToken(i)
    \/ \E i \in 1..Len(bg) : SaveTruncate(i)
    \/ \E i \in 1..Len(bg) : SaveTokens(i)
    \/ NewHandlerLoad
    \/ NewHandlerSave

\* C7: when obtain_certificate has returned, handler.cleanup has been invoked
\* for every challenge it deployed.
C7_CleanupAlwaysInvoked ==
    ob_pc = "returned" =>
        \A i \in 1..Len(active_challenges) : active_challenges[i] \in g_cleaned

\* C8: once deploy(challenge) has returned Ok (and until cleanup is asked
\* for), get_token(challenge.token) returns its key authorization.
C8_DeployMakesTokenRetrievable ==
    \A c \in g_deployed \ g_cleaned : get_token(1, c.token) = Some(c.key_authorization)

TokensInFile == IF IsSome(challenge_file) THEN {e[1] : e \in Unwrap(challenge_file).members} ELSE {}

\* C9: after deploy(c) followed by cleanup(c), once every spawned task has
\* finished, get_token(c.token) is None and the token is not in the file.
C9_CleanupRemovesToken ==
    (inst_pc[2] = "absent" /\ \A i \in 1..Len(bg) : bg[i].pc = "finished") =>
        \A c \in g_deployed \cap g_cleaned :
            /\ get_token(1, c.token) = None
            /\ c.token \notin TokensInFile

\* C10: a token whose storage had completed on the first instance when a
\* second instance was constructed over the same path is returned by the
\* second instance with the same key authorization.
C10_TokenSurvivesNewInstance ==
    \A c \in g_stored_at_load[2] :
        inst_pc[2] # "absent" => get_token(2, c.token) = Some(c.key_authorization)

\* ------------------------------------------------------------------------
\* Challenge-token garbage collection
\* (pingclair-tls/src/persistent_challenge_handler.rs, cleanup_expired)
\* ------------------------------------------------------------------------
MaxGcTicks == 3

TOKEN_TTL_SECS == 24 * 3600

\* The clock advances in steps of twelve hours.
GcTickStep == 12 * 3600

\* Challenges handed to the handler directly through the ChallengeHandler trait.
GcChallenges == {ChallengeResponse(d, 1) : d \in Domains}

GcFrame == UNCHANGED <<vars_reload, vars_store, vars_resolve, vars_router, vars_serve, vars_lb, vars_filter, vars_json, vars_ext, cert_cache, cert_files, processing, openssl_cache, issued,
                       hs_pc, hs_sni, hs_time, hs_prior, hs_result, hs_served, hs_count,
                       g_acme_failed, ticks, cache_guard, g_read_in_issuance,
                       restarted, g_files_at_restart>>

AcmeIdle == UNCHANGED <<ob_pc, ob_domains, ob_i, ob_state, ob_result, active_challenges, orders,
                        g_cleaned, g_ready_told>>

\* ChallengeHandler::deploy called on the handler.
HandlerDeploy(c) ==
    /\ inst_pc[1] = "ready"
    /\ c \notin g_deployed
    /\ Len(bg) < MaxTasks
    /\ bg' = Spawn(bg, "store", c)
    /\ g_deployed' = g_deployed \cup {c}
    /\ UNCHANGED <<handler_kind, tokens, inst_pc, challenge_file, g_stored_at_load, now>>
    /\ UNCHANGED vars_gc
    /\ AcmeIdle
    /\ GcFrame

\* SystemTime::now moves on.
GcTick ==
    /\ gc_ticks < MaxGcTicks
    /\ gc_ticks' = gc_ticks + 1
    /\ now' = now + GcTickStep
    /\ UNCHANGED <<handler_kind, tokens, inst_pc, challenge_file, bg, g_deployed,
                   g_stored_at_load, gc_pc>>
    /\ AcmeIdle
    /\ GcFrame

\* tokens.retain(|_, entry| current_time - entry.created_at < TOKEN_TTL_SECS)
retain_expired(map, current_time) ==
    [k \in DOMAIN map |->
        IF IsSome(map[k]) /\ current_time - Unwrap(map[k]).created_at < TOKEN_TTL_SECS
        THEN map[k] ELSE None]

\* cleanup_expired: read the clock, take the write lock, drop the expired
\* entries; save only when something was removed.
CleanupExpired ==
    /\ handler_kind = "persistent"
    /\ gc_pc = "idle"
    /\ ~ReadLocked
    /\ tokens' = [tokens EXCEPT ![1] = retain_expired(tokens[1], now)]
    /\ gc_pc' = IF tokens'[1] # tokens[1] THEN "save" ELSE "idle"
    /\ UNCHANGED <<handler_kind, inst_pc, challenge_file, bg, g_deployed, g_stored_at_load,
                   gc_ticks, now>>
    /\ AcmeIdle
    /\ GcFrame

\* cleanup_expired's save_tokens: read lock, serialize, fs::write creates
\* (truncates) the file.
CleanupExpiredTruncate ==
    /\ gc_pc = "save"
    /\ challenge_file' = Some(TruncatedFile)
    /\ gc_pc' = "write"
    /\ UNCHANGED <<handler_kind, tokens, inst_pc, bg, g_deployed, g_stored_at_load, gc_ticks, now>>
    /\ AcmeIdle
    /\ GcFrame

\* cleanup_expired's save_tokens: the document is written; Ok(()).
CleanupExpiredSave ==
    /\ gc_pc = "write"
    /\ challenge_file' = Some(Serialize(tokens[1]))
    /\ gc_pc' = "idle"
    /\ UNCHANGED <<handler_kind, tokens, inst_pc, bg, g_deployed, g_stored_at_load, gc_ticks, now>>
    /\ AcmeIdle
    /\ GcFrame

InitGc ==
    /\ gc_pc = "idle"
    /\ gc_ticks = 0

NextGc ==
    \/ NewChallengeHandler
    \/ \E c \in GcChallenges : HandlerDeploy(c)
    \/ \E i \in 1..Len(bg) : StoreInsert(i)
    \/ \E i \in 1..Len(bg) : SaveTruncate(i)
    \/ \E i \in 1..Len(bg) : SaveTokens(i)
    \/ GcTick
    \/ CleanupExpired
    \/ CleanupExpiredTruncate
    \/ CleanupExpiredSave
    \/ NewHandlerLoad
    \/ NewHandlerSave

\* C11: a token that is 24 hours old or older is not returned by get_token
\* of the running handler (it has been garbage-collected).
C11_OldTokensCollected ==
    \A k \in AllTokens :
        IsSome(tokens[1][k]) => now - Unwrap(tokens[1][k]).created_at < TOKEN_TTL_SECS

\* ------------------------------------------------------------------------
\* CertStore: init, store, get, remove (pingclair-tls/src/cert_store.rs)
\* Each operation is one step.
\* ------------------------------------------------------------------------
MaxStoreOps == 4

\* The domain lists of the certificates handed to store.
StoreDomainLists == {<<"a.com">>, <<"b.com">>, <<"a.com", "b.com">>, <<"b.com", "a.com">>}

\* The orders in which read_dir may yield the files of the directory.
FileOrders == {order \in FileNames \X FileNames : order[1] # order[2]}

\* CertStore::get
CertStore_get(cache, domain) == cache[domain]

\* load_all: every certificate file, in directory order, is mapped under
\* each of its domains; what the cache held before stays unless overwritten.
RECURSIVE load_all(_, _, _)
load_all(cache, files, order) ==
    IF order = <<>> THEN cache
    ELSE load_all(IF IsSome(files[Head(order)])
                  THEN CertStore_store_cache(cache, Unwrap(files[Head(order)]))
                  ELSE cache,
                  files, Tail(order))

\* A slip: the file to delete is named after the domain asked for.
removed_file_name_requested(cert, domain) == safe_filename(domain)

\* remove: the file is named after the certificate's primary domain.
removed_file_name(cert, domain) == safe_filename(cert.domains[1])

\* remove, step 1: delete the file.
CertStore_remove_files(files, cert, domain) ==
    [files EXCEPT ![removed_file_name(cert, domain)] = None]

\* remove, step 2: clear the cache entry of every domain of the certificate.
CertStore_remove_cache(cache, cert) ==
    [d \in DOMAIN cache |->
        IF \E i \in 1..Len(cert.domains) : cert.domains[i] = d THEN None ELSE cache[d]]

StoreFrame == UNCHANGED <<vars_reload, vars_acme, vars_gc, vars_resolve, vars_router, vars_serve, vars_lb, vars_filter, vars_json, vars_ext, now, ticks, processing, openssl_cache,
                          hs_pc, hs_sni, hs_time, hs_prior, hs_result, hs_served, hs_count,
                          g_acme_failed, cache_guard, g_read_in_issuance, restarted,
                          g_files_at_restart>>

\* CertStore::new over the same directory: an empty cache.
StoreNew ==
    /\ st_count < MaxStoreOps
    /\ st_count' = st_count + 1
    /\ cert_cache' = [d \in Domains |-> None]
    /\ g_removed' = None
    /\ g_reinit' = FALSE
    /\ UNCHANGED <<cert_files, issued, g_last_stored>>
    /\ StoreFrame

\* CertStore::init: create the directory, load_all.
StoreInit ==
    /\ st_count < MaxStoreOps
    /\ st_count' = st_count + 1
    /\ \E order \in FileOrders : cert_cache' = load_all(cert_cache, cert_files, order)
    /\ g_reinit' = IsSome(g_last_stored)
    /\ g_removed' = None
    /\ UNCHANGED <<cert_files, issued, g_last_stored>>
    /\ StoreFrame

\* CertStore::store(cert)
StoreStore ==
    /\ st_count < MaxStoreOps
    /\ st_count' = st_count + 1
    /\ \E domains \in StoreDomainLists :
         LET cert == NewCertificate(domains, issued + 1, now)
         IN  /\ cert_files' = CertStore_store_files(cert_files, cert)
             /\ cert_cache' = CertStore_store_cache(cert_cache, cert)
             /\ g_last_stored' = Some(cert)
    /\ issued' = issued + 1
    /\ g_reinit' = FALSE
    /\ g_removed' = None
    /\ StoreFrame

\* CertStore::remove(domain): Ok(()) whether or not the domain is known.
StoreRemove ==
    /\ st_count < MaxStoreOps
    /\ st_count' = st_count + 1
    /\ \E domain \in Domains :
         LET found == CertStore_get(cert_cache, domain)
         IN  IF IsSome(found)
             THEN /\ cert_files' = CertStore_remove_files(cert_files, Unwrap(found), domain)
                  /\ cert_cache' = CertStore_remove_cache(cert_cache, Unwrap(found))
                  /\ g_removed' = found
             ELSE /\ UNCHANGED <<cert_files, cert_cache>>
                  /\ g_removed' = None
    /\ g_last_stored' = None
    /\ g_reinit' = FALSE
    /\ UNCHANGED issued
    /\ StoreFrame

InitStore ==
    /\ st_count = 0
    /\ g_last_stored = None
    /\ g_reinit = FALSE
    /\ g_removed = None

NextStore ==
    \/ StoreNew
    \/ StoreInit
    \/ StoreStore
    \/ StoreRemove

\* C14: when init runs after store(c), with no other write in between, get(d)
\* returns c for every domain d of c.
C14_HydrationIdempotent ==
    (IsSome(g_last_stored) /\ g_reinit) =>
        \A i \in 1..Len(Unwrap(g_last_stored).domains) :
            CertStore_get(cert_cache, Unwrap(g_last_stored).domains[i]) = g_last_stored

\* C15: when remove(domain) has returned Ok for a domain that was present,
\* the file named after the primary domain of its certificate is gone and
\* get(s) is None for every domain s of that certificate.
C15_RemoveDeletesFileAndSans ==
    IsSome(g_removed) =>
        /\ cert_files[safe_filename(Unwrap(g_removed).domains[1])] = None
        /\ \A i \in 1..Len(Unwrap(g_removed).domains) :
               CertStore_get(cert_cache, Unwrap(g_removed).domains[i]) = None

\* A certificate with two names was removed through its second name.
C15_Witness ==
    /\ IsSome(g_removed)
    /\ Len(Unwrap(g_removed).domains) = 2
    /\ \A d \in Domains : CertStore_get(cert_cache, d) = None
    /\ \A f \in FileNames : cert_files[f] = None

\* ------------------------------------------------------------------------
\* TlsManager::resolve_cert and resolve_pem (pingclair-tls/src/manager.rs)
\* ------------------------------------------------------------------------
MaxResolves == 3
MaxResolveTicks == 2

CACHE_TTL_SECS == 3600
ResolveTickStep == 1800

\* TlsManager::new and its two siblings build manual_certs as HashMap::new();
\* no method inserts into it.
manual_certs == [d \in Domains |-> None]

\* convert_to_rustls: the PEM chain and key are parsed into a CertifiedKey.
convert_to_rustls(cert) == [chain |-> <<cert.cert_pem>>, key |-> cert.key_pem]

ResolveFrame == UNCHANGED <<vars_reload, vars_acme, vars_gc, vars_store, vars_router, vars_serve, vars_lb, vars_filter, vars_json, vars_ext, ticks, processing,
                            openssl_cache, hs_pc, hs_sni, hs_time, hs_prior, hs_result,
                            hs_served, hs_count, g_acme_failed, cache_guard,
                            g_read_in_issuance, restarted, g_files_at_restart>>

\* auto.get_certificate(domain) run to its end by one caller: the store is
\* read; on a miss or a certificate needing renewal the ACME client runs and
\* its certificate is stored.  `observed` is what the caller met before.
ResolveGetCertificate(fn, domain, observed) ==
    LET stored == CertStore_get(cert_cache, domain)
    IN  IF IsSome(stored) /\ ~needs_renewal(Unwrap(stored), now)
        THEN /\ g_resolve' = Some([observed EXCEPT !.store_consulted = TRUE,
                                                   !.returned = stored])
             /\ IF fn = "resolve_cert"
                THEN cached_certs' = [cached_certs EXCEPT ![domain] =
                         Some([certified_key |-> convert_to_rustls(Unwrap(stored)),
                               expires_at |-> now + CACHE_TTL_SECS, cached_at |-> now])]
                ELSE UNCHANGED cached_certs
             /\ UNCHANGED <<cert_cache, cert_files, issued>>
        ELSE \E ok \in BOOLEAN :
               IF ok
               THEN LET cert == NewCertificate(<<domain>>, issued + 1, now)
                    IN  /\ issued' = issued + 1
                        /\ cert_files' = CertStore_store_files(cert_files, cert)
                        /\ cert_cache' = CertStore_store_cache(cert_cache, cert)
                        /\ g_resolve' = Some([observed EXCEPT !.store_consulted = TRUE,
                                                              !.acme_consulted = TRUE,
                                                              !.returned = Some(cert)])
                        /\ IF fn = "resolve_cert"
                           THEN cached_certs' = [cached_certs EXCEPT ![domain] =
                                    Some([certified_key |-> convert_to_rustls(cert),
                                          expires_at |-> now + CACHE_TTL_SECS, cached_at |-> now])]
                           ELSE UNCHANGED cached_certs
               ELSE /\ g_resolve' = Some([observed EXCEPT !.store_consulted = TRUE,
                                                          !.acme_consulted = TRUE])
                    /\ UNCHANGED <<cert_cache, cert_files, issued, cached_certs>>

\* What a resolution meets on entry.
Observed(fn, domain) ==
    [fn |-> fn, domain |-> domain,
     manual |-> IsSome(manual_certs[domain]),
     cached |-> IsSome(cached_certs[domain]) /\ now < Unwrap(cached_certs[domain]).expires_at,
     store_consulted |-> FALSE, acme_consulted |-> FALSE, returned |-> None]

\* resolve_cert(domain): manual certificates, then the CertifiedKey cache,
\* then AutoHTTPS.
ResolveCert ==
    /\ rs_count < MaxResolves
    /\ rs_count' = rs_count + 1
    /\ \E domain \in Domains :
         LET observed == Observed("resolve_cert", domain)
         IN  IF observed.manual
             THEN /\ g_resolve' = Some([observed EXCEPT !.returned = manual_certs[domain]])
                  /\ UNCHANGED <<cert_cache, cert_files, issued, cached_certs>>
             ELSE IF observed.cached
             THEN /\ g_resolve' = Some([observed EXCEPT
                                           !.returned = Some(Unwrap(cached_certs[domain]).certified_key)])
                  /\ UNCHANGED <<cert_cache, cert_files, issued, cached_certs>>
             ELSE ResolveGetCertificate("resolve_cert", domain, observed)
    /\ UNCHANGED <<now, rs_ticks>>
    /\ ResolveFrame

\* resolve_pem(domain): AutoHTTPS only.
ResolvePem ==
    /\ rs_count < MaxResolves
    /\ rs_count' = rs_count + 1
    /\ \E domain \in Domains :
         ResolveGetCertificate("resolve_pem", domain, Observed("resolve_pem", domain))
    /\ UNCHANGED <<now, rs_ticks>>
    /\ ResolveFrame

\* Half of the cache TTL passes.
ResolveTick ==
    /\ rs_ticks < MaxResolveTicks
    /\ rs_ticks' = rs_ticks + 1
    /\ now' = now + ResolveTickStep
    /\ UNCHANGED <<cert_cache, cert_files, issued, cached_certs, rs_count, g_resolve>>
    /\ ResolveFrame

InitResolve ==
    /\ cached_certs = [d \in Domains |-> None]
    /\ rs_count = 0
    /\ rs_ticks = 0
    /\ g_resolve = None

NextResolve ==
    \/ ResolveCert
    \/ ResolvePem
    \/ ResolveTick

\* C16: a resolution that meets a manual certificate or an unexpired cache
\* entry for its domain consults neither the CertStore nor the ACME client.
C16_CacheBeforeAutoHttps ==
    IsSome(g_resolve) =>
        ((Unwrap(g_resolve).manual \/ Unwrap(g_resolve).cached) =>
            /\ ~Unwrap(g_resolve).store_consulted
            /\ ~Unwrap(g_resolve).acme_consulted)

\* ------------------------------------------------------------------------
\* Router::new and Router::match_request on their own
\* ------------------------------------------------------------------------
RoutePaths ==
    { <<>>, <<"/">>, <<"/", "*">>, <<"/", "api">>, <<"/", "api", "/", "*">>,
      <<"/", "api", "/", "{*rest}">>, <<"/", "api", "/", "v1">> }

QueryDebug ==
    [kind |-> "Query", name |-> "debug", condition |-> [kind |-> "Equals", arg |-> <<"1">>]]

PostFromLocal ==
    [kind |-> "And",
     left |-> [kind |-> "And", left |-> [kind |-> "Method", methods |-> <<"post">>],
               right |-> [kind |-> "Host", hosts |-> <<"A.COM">>]],
     right |-> [kind |-> "And", left |-> [kind |-> "Protocol", protocols |-> <<"HTTP">>],
                right |-> [kind |-> "RemoteIp", ips |-> <<"127.0.0.1">>]]]

ApiOrNoEnv ==
    [kind |-> "Or", left |-> [kind |-> "Path", patterns |-> << <<"/", "api", "/", "*">> >>],
     right |-> [kind |-> "Not", inner |-> [kind |-> "Header", name |-> "x-env",
                                             condition |-> [kind |-> "Exists"]]]]

\* The methods and matcher a route may carry.
RouteConstraints ==
    { [methods |-> None, matcher |-> None],
      [methods |-> Some(<<"get">>), matcher |-> None],
      [methods |-> None, matcher |-> Some(QueryDebug)],
      [methods |-> Some(<<"get">>), matcher |-> Some(QueryDebug)],
      [methods |-> None, matcher |-> Some(PostFromLocal)],
      [methods |-> None, matcher |-> Some(ApiOrNoEnv)] }

RouteSet ==
    {[path |-> p, handler |-> Respond("r"), methods |-> c.methods, matcher |-> c.matcher] :
        p \in RoutePaths, c \in RouteConstraints}

\* Route lists of one or two routes.
RouteLists == {<<r>> : r \in RouteSet} \cup (RouteSet \X RouteSet)

Requests ==
    [path : { <<"/">>, <<"/", "api">>, <<"/", "api", "/">>, <<"/", "api", "/", "v1">>, <<"/", "v1">> },
     method : {"GET", "POST"},
     headers : [HeaderNames -> {None, Some(<<"prod">>)}],
     host : {"a.com"},
     remote_ip : {"127.0.0.1"},
     protocol : {"http"},
     query : [{"debug"} -> {None, Some(<<"1">>)}]]

RouterFrame == UNCHANGED <<vars_reload, vars_auto, vars_acme, vars_gc, vars_store, vars_resolve, vars_serve, vars_lb, vars_filter, vars_json, vars_ext>>

\* Router::new(routes)
BuildRouter ==
    /\ rt_pc = "config"
    /\ \E routes \in RouteLists :
         \E order \in GroupOrders(routes) :
             /\ rt_routes' = routes
             /\ rt_router' = Router_new(routes, order)
    /\ rt_pc' = "built"
    /\ UNCHANGED <<rt_request, rt_result>>
    /\ RouterFrame

\* router.match_request(path, method, headers, host, remote_ip, protocol)
MatchRequest ==
    /\ rt_pc \in {"built", "matched"}
    /\ \E q \in Requests :
         /\ rt_request' = Some(q)
         /\ rt_result' = match_request(rt_router, q)
    /\ rt_pc' = "matched"
    /\ UNCHANGED <<rt_routes, rt_router>>
    /\ RouterFrame

InitRouter ==
    /\ rt_pc = "config"
    /\ rt_routes = <<>>
    /\ rt_router = Router_new(<<>>, <<>>)
    /\ rt_request = None
    /\ rt_result = None

NextRouter ==
    \/ BuildRouter
    \/ MatchRequest

\* Route j of the list satisfies the request: a router holding that route
\* alone returns it.
SatisfiesAlone(j, q) ==
    \E order \in GroupOrders(<<rt_routes[j]>>) :
        IsSome(match_request(Router_new(<<rt_routes[j]>>, order), q))

\* Two routes are tried as one run of candidates: both are default routes,
\* or both have the same path.
SameGroup(i, j) ==
    \/ IsDefaultRoute(rt_routes[i]) /\ IsDefaultRoute(rt_routes[j])
    \/ /\ ~IsDefaultRoute(rt_routes[i]) /\ ~IsDefaultRoute(rt_routes[j])
       /\ normalize_path(rt_routes[i].path) = normalize_path(rt_routes[j].path)

\* C17 (as stated): the route returned is the earliest route of the list
\* that satisfies the request.
C17_EarliestInListWins ==
    (rt_pc = "matched" /\ IsSome(rt_result)) =>
        \A j \in 1..Len(rt_routes) :
            SatisfiesAlone(j, Unwrap(rt_request)) => Unwrap(rt_result) <= j

\* C17 (amended): the route returned is the earliest satisfying route among
\* those with its own path (or among the default routes), and a default
\* route is returned only when no route of the radix-tree group hit by the
\* path passes.
C17_EarliestInCandidateOrder ==
    (rt_pc = "matched" /\ IsSome(rt_result)) =>
        LET i == Unwrap(rt_result)
            q == Unwrap(rt_request)
            hit == RadixAt(rt_router.path_router, q.path)
        IN  /\ \A j \in 1..Len(rt_routes) :
                   (SameGroup(i, j) /\ SatisfiesAlone(j, q)) => i <= j
            /\ (IsDefaultRoute(rt_routes[i]) /\ IsSome(hit)) =>
                   \A k \in 1..Len(Unwrap(hit)) : ~Passes(rt_routes[Unwrap(hit)[k]], q)

\* A route of the radix tree is returned although a default route placed
\* before it in the list satisfies the request too.
C17_Witness ==
    /\ rt_pc = "matched" /\ IsSome(rt_result)
    /\ Unwrap(rt_result) = 2
    /\ ~IsDefaultRoute(rt_routes[2])
    /\ IsDefaultRoute(rt_routes[1])
    /\ SatisfiesAlone(1, Unwrap(rt_request))

NoConstraint(route) == route.methods = None /\ route.matcher = None

\* C18: alone in a router and without method constraint or matcher, a route
\* with path /api/* is selected for /api and for every /api/<anything>, a
\* route with path /api for /api only, a route with path /* for every path.
C18_PathSelection ==
    (rt_pc = "matched" /\ Len(rt_routes) = 1 /\ NoConstraint(rt_routes[1])) =>
        LET path == rt_routes[1].path
            q == Unwrap(rt_request)
        IN  /\ path = <<"/", "api", "/", "*">> =>
                   ((q.path = <<"/", "api">> \/ (starts_with(q.path, <<"/", "api", "/">>) /\ Len(q.path) > 3))
                       => IsSome(rt_result))
            /\ path = <<"/", "api">> => (IsSome(rt_result) <=> q.path = <<"/", "api">>)
            /\ path = <<"/", "*">> => IsSome(rt_result)

\* C19: of two routes whose paths conflict in the radix tree, the earlier
\* one of the list is in the tree.
C19_LaterConflictingRouteDropped ==
    rt_pc # "config" =>
        \A i, j \in 1..Len(rt_routes) :
            (/\ i < j
             /\ ~IsDefaultRoute(rt_routes[i]) /\ ~IsDefaultRoute(rt_routes[j])
             /\ normalize_path(rt_routes[i].path) # normalize_path(rt_routes[j].path)
             /\ glob_to_matchit(normalize_path(rt_routes[i].path)) = glob_to_matchit(normalize_path(rt_routes[j].path)))
            => LET key == glob_to_matchit(normalize_path(rt_routes[i].path))
               IN  /\ key \in DOMAIN rt_router.path_router
                   /\ \E k \in 1..Len(rt_router.path_router[key]) : rt_router.path_router[key][k] = i

\* What a matcher tree says of a request when a Query condition is applied
\* to the query string of the request.
RECURSIVE Holds(_, _)
Holds(matcher, q) ==
    CASE matcher.kind = "Query" -> evaluate_condition(q.query[matcher.name], matcher.condition)
      [] matcher.kind = "And"   -> Holds(matcher.left, q) /\ Holds(matcher.right, q)
      [] matcher.kind = "Or"    -> Holds(matcher.left, q) \/ Holds(matcher.right, q)
      [] matcher.kind = "Not"   -> ~Holds(matcher.inner, q)
      [] OTHER                  -> evaluate_matcher_inner(matcher, q)

\* C20: the route returned allows the method of the request and its matcher
\* tree holds on the request.
C20_RoutingSound ==
    (rt_pc = "matched" /\ IsSome(rt_result)) =>
        LET route == rt_routes[Unwrap(rt_result)]
            q == Unwrap(rt_request)
        IN  /\ MethodAllowed(route, q)
            /\ IsSome(route.matcher) => Holds(Unwrap(route.matcher), q)

\* ------------------------------------------------------------------------
\* Serving a Caddyfile: adapt_server (pingclair-config/src/adapter/
\* caddyfile.rs), compile_server (pingclair-config/src/compiler.rs),
\* run_server (pingclair/src/main.rs), the filter chain of server.rs
\* ------------------------------------------------------------------------
\* A site address is the sequence of its pieces: ":8080" is <<":", "8080">>,
\* "a.com:8080" is <<"a.com", ":", "8080">>.  Join gives the String back.
Join(pieces) ==
    CASE pieces = <<":", "8080">>            -> ":8080"
      [] pieces = <<":", "80">>              -> ":80"
      [] pieces = <<"a.com">>                -> "a.com"
      [] pieces = <<"a.com", ":", "8080">>   -> "a.com:8080"
      [] pieces = <<"0.0.0.0", ":", "8080">> -> Addr8080
      [] pieces = <<"0.0.0.0", ":", "80">>   -> Addr80
      [] pieces = <<"_">>                    -> "_"

\* str::parse::<u16>().ok() on the last piece of an address.
ParsePort(piece) == IF piece \in {"80", "8080"} THEN Some(piece) ELSE None

Directive(name, args, routes) == [name |-> name, args |-> args, routes |-> routes]

\* adapt_server: the listeners of the site name and of the arguments that
\* carry a ':'; the name becomes "_" for a port-only name or several
\* listeners.
adapt_server(d) ==
    LET names   == <<d.name>> \o SelectSeq(d.args, LAMBDA arg :
                       starts_with(arg, <<":">>) \/ contains(arg, <<":">>))
        withcol == SelectSeq(names, LAMBDA name : starts_with(name, <<":">>) \/ contains(name, <<":">>))
        listens == [i \in 1..Len(withcol) |->
                       [scheme |-> "http",
                        host   |-> IF starts_with(withcol[i], <<":">>) THEN "0.0.0.0" ELSE withcol[i][1],
                        port   |-> ParsePort(withcol[i][Len(withcol[i])])]]
    IN  [name    |-> IF Len(listens) > 1 \/ starts_with(d.name, <<":">>) THEN <<"_">> ELSE d.name,
         listens |-> listens,
         routes  |-> d.routes]

\* compile_server: name is always Some; one "host:port" per listener.
compile_server(server) ==
    [name   |-> Some(Join(server.name)),
     listen |-> [i \in 1..Len(server.listens) |->
                    IF IsSome(server.listens[i].port)
                    THEN Join(<<server.listens[i].host, ":", Unwrap(server.listens[i].port)>>)
                    ELSE server.listens[i].host],
     routes |-> server.routes]

HeadersHandler == [type |-> "headers", set |-> {<<"X-Custom", "1">>}]

ProxyTo(upstreams) ==
    [type |-> "reverse_proxy", upstreams |-> upstreams, strategy |-> "round_robin",
     headers_up |-> {}, headers_down |-> {<<"X-Served-By", "pool">>}]

\* The route lists of the sites: an answer on every path, an answer on /api
\* only, a Headers handler, a pool of two upstreams, an empty pool.
ServeRoutes ==
    {<<Route(<<"/", "*">>, Respond("hi"))>>,
     <<Route(<<"/", "api">>, Respond("hi"))>>,
     <<Route(<<"/", "*">>, HeadersHandler)>>,
     <<Route(<<"/", "*">>, ProxyTo(<<UpstreamAddrs[2], UpstreamAddrs[1]>>))>>,
     <<Route(<<"/", "*">>, ProxyTo(<<>>))>>}

SiteAddresses ==
    {[name |-> <<":", "8080">>, args |-> <<>>],
     [name |-> <<"a.com">>, args |-> <<>>],
     [name |-> <<"a.com">>, args |-> << <<":", "8080">> >>],
     [name |-> <<"a.com">>, args |-> << <<":", "8080">>, <<":", "80">> >>]}

Directives == {Directive(a.name, a.args, routes) : a \in SiteAddresses, routes \in ServeRoutes}

\* Caddyfiles of one or two sites.
Caddyfiles == {<<d>> : d \in Directives} \cup (Directives \X Directives)

\* adapt and compile, site by site.
CompileCaddyfile(file) == [i \in 1..Len(file) |-> compile_server(adapt_server(file[i]))]

ServeFrame == UNCHANGED <<vars_auto, vars_acme, vars_gc, vars_store, vars_resolve, vars_router, vars_lb, vars_filter, vars_json, vars_ext>>

\* run_server: every compiled server is added to the proxy of each of its
\* listen addresses.
RunServer ==
    /\ ~sv_started
    /\ \A r \in Reqs : req_pc[r] = "new"
    /\ \E file \in Caddyfiles :
         LET servers == CompileCaddyfile(file)
         IN  /\ port_proxies' = Startup(Bindings(servers), [a \in {} |-> EmptyProxy], 1)
             /\ next_arc' = Len(Bindings(servers)) + 1
             /\ active_connections' = StartupCounters(Bindings(servers), 1)
    /\ sv_started' = TRUE
    /\ sv_rr' = [id \in {} |-> 0]
    /\ sv_unhealthy' = {}
    /\ UNCHANGED <<resp, req_pc, req_in, ctx, rl_pc, rl_src, rl_todo, rl_updated, rl_errors,
                   rl_outcome, rl_count, g_before, g_clean, g_replaced, g_old_ids, g_stale,
                   g_peer_saw>>
    /\ ServeFrame

\* The ProxyStates installed on the listeners.
InstalledStates ==
    UNION {{port_proxies[a].hosts[h] : h \in DOMAIN port_proxies[a].hosts}
           \cup Range(port_proxies[a].default) : a \in DOMAIN port_proxies}

\* <<load balancer id, address>> of every backend of every installed pool.
InstalledBackends ==
    UNION {UNION {IF IsSome(st.load_balancers[i])
                  THEN {<<Unwrap(st.load_balancers[i]).id, a>> :
                           a \in Range(Unwrap(st.load_balancers[i]).upstreams)}
                  ELSE {} : i \in DOMAIN st.load_balancers} : st \in InstalledStates}

\* The health check service marks a backend unhealthy or healthy again.
HealthFlip ==
    /\ sv_started
    /\ \E b \in InstalledBackends :
         sv_unhealthy' = IF b \in sv_unhealthy THEN sv_unhealthy \ {b} ELSE sv_unhealthy \cup {b}
    /\ UNCHANGED <<resp, sv_rr, sv_started>>
    /\ UNCHANGED vars_reload
    /\ ServeFrame

InitServe ==
    /\ resp = [r \in Reqs |-> None]
    /\ sv_rr = [id \in {} |-> 0]
    /\ sv_unhealthy = {}
    /\ sv_started = FALSE

NextServe ==
    \/ RunServer
    \/ HealthFlip
    \/ sv_started /\ \E r \in Reqs : RequestFilter(r)
    \/ sv_started /\ \E r \in Reqs : UpstreamPeer(r)
    \/ sv_started /\ \E r \in Reqs : UpstreamRequestFilter(r)
    \/ sv_started /\ \E r \in Reqs : ResponseFilter(r)

\* The virtual hosts installed on the listener of request r.
HostsOn(r) == port_proxies[req_in[r].addr].hosts

\* C21: once request_filter has run for a request on a listener that carries
\* a server named "_", and the request's Host is the name of no other server
\* of that listener, the request is handled by the state of the "_" server.
C21_UnderscoreIsPortDefault ==
    \A r \in Reqs :
        (/\ sv_started
         /\ req_pc[r] # "new"
         /\ "_" \in DOMAIN HostsOn(r)
         /\ req_in[r].host \notin DOMAIN HostsOn(r))
        => /\ IsSome(ctx[r].state)
           /\ Unwrap(ctx[r].state).id = HostsOn(r)["_"].id

\* C22: a request that ended without a matched route (no virtual host for
\* its Host, or no route of the virtual host passing) was answered with 404.
C22_NoRouteIs404 ==
    \A r \in Reqs :
        (sv_started /\ req_pc[r] \in {"done", "failed"} /\ ~IsSome(ctx[r].route))
        => (IsSome(resp[r]) /\ Unwrap(resp[r]).status = 404)

\* The reverse-proxy handler of the route matched for request r, if any.
ProxyRouteOf(r) ==
    IF IsSome(ctx[r].route) /\ IsSome(ctx[r].state)
    THEN LET handler == Unwrap(ctx[r].state).config.routes[Unwrap(ctx[r].route)].handler
         IN  IF handler.type = "reverse_proxy" THEN Some(handler) ELSE None
    ELSE None

\* The id of the load balancer of the route matched for request r.
LbIdOf(r) == Unwrap(Unwrap(ctx[r].state).load_balancers[Unwrap(ctx[r].route)]).id

\* C23: every upstream_peer step for a route with a pool: when no upstream of
\* the pool is healthy (an empty pool included) the step fails with
\* ConnectNoRoute, selects no upstream and counts no connection; and an
\* upstream it selects is not marked unhealthy.
C23_NoHealthyUpstreamNoRoute ==
    [][\A r \in Reqs :
         (sv_started /\ req_pc[r] = "upstream_peer" /\ req_pc'[r] # "upstream_peer"
          /\ IsSome(ProxyRouteOf(r)))
         => LET upstreams == Unwrap(ProxyRouteOf(r)).upstreams
                healthy   == {a \in Range(upstreams) : <<LbIdOf(r), a>> \notin sv_unhealthy}
            IN  /\ healthy = {} =>
                     /\ req_pc'[r] = "failed"
                     /\ resp'[r] = Some(ErrorResponse("ConnectNoRoute"))
                     /\ ~IsSome(ctx'[r].upstream)
                     /\ active_connections' = active_connections
                /\ IsSome(ctx'[r].upstream) => Unwrap(ctx'[r].upstream).addr \in healthy]_vars

\* A request on a route whose pool has upstreams, all of them marked
\* unhealthy, has failed with ConnectNoRoute and holds no upstream.
C23_Witness ==
    \E r \in Reqs :
        /\ sv_started
        /\ req_pc[r] = "failed"
        /\ IsSome(ProxyRouteOf(r))
        /\ Unwrap(ProxyRouteOf(r)).upstreams # <<>>
        /\ \A a \in Range(Unwrap(ProxyRouteOf(r)).upstreams) : <<LbIdOf(r), a>> \in sv_unhealthy
        /\ resp[r] = Some(ErrorResponse("ConnectNoRoute"))
        /\ ~IsSome(ctx[r].upstream)

\* The Headers handler of the route matched for request r, if any.
HeadersRouteOf(r) ==
    IF IsSome(ctx[r].route) /\ IsSome(ctx[r].state)
    THEN LET handler == Unwrap(ctx[r].state).config.routes[Unwrap(ctx[r].route)].handler
         IN  IF handler.type = "headers" THEN Some(handler) ELSE None
    ELSE None

\* C29: for a request whose matched handler is Headers, request_filter has
\* recorded the handler's headers in the context and has not answered the
\* request; and when the request has ended, the response the client received
\* carries those headers.
C29_HeadersReachResponse ==
    \A r \in Reqs :
        (sv_started /\ IsSome(HeadersRouteOf(r)))
        => /\ Unwrap(HeadersRouteOf(r)).set \subseteq ctx[r].headers_down
           /\ req_pc[r] = "upstream_peer" => ~IsSome(resp[r])
           /\ req_pc[r] \in {"done", "failed"} =>
                 /\ IsSome(resp[r])
                 /\ Unwrap(HeadersRouteOf(r)).set \subseteq Unwrap(resp[r]).headers

\* ------------------------------------------------------------------------
\* LoadBalancer used on its own: new, select from concurrent callers, and
\* the health check (pingclair-proxy/src/load_balancer.rs, health_check.rs)
\* ------------------------------------------------------------------------
MaxSelects == 4
MaxProbes == 4
\* Probes taken while select calls are made.
MaxProbesAmongSelects == 1

Selectors == {"s1", "s2"}

\* select keys: None and the bytes of one client address.
Keys == {None, Some(1)}

LbUpstreamLists ==
    {<<UpstreamAddrs[1], UpstreamAddrs[2]>>,
     <<UpstreamAddrs[2], UpstreamAddrs[1]>>,
     <<UpstreamAddrs[1], UpstreamAddrs[2], UpstreamAddrs[3]>>}

\* <<positive_threshold, negative_threshold>>; <<1, 3>> is the default.
Thresholds == {<<1, 3>>, <<1, 1>>, <<2, 2>>}

LbConfigs ==
    {[upstreams |-> u, strategy |-> s, positive_threshold |-> t[1], negative_threshold |-> t[2]] :
        u \in LbUpstreamLists, s \in {"round_robin", "ip_hash"}, t \in Thresholds}

\* A slip: the increment of the counter is lost.
fetch_add_lost(c) == c

\* RoundRobin::next: AtomicUsize::fetch_add(1); the value left in the counter.
fetch_add(c) == c + 1

\* A slip: the thresholds are taken the other way round.
health_threshold_swapped(config, success) ==
    IF success THEN config.negative_threshold ELSE config.positive_threshold

\* HealthChecker::health_threshold
health_threshold(config, success) ==
    IF success THEN config.positive_threshold ELSE config.negative_threshold

\* pingora's Health::observe_health, which the health check service feeds
\* with the outcome of check and with health_threshold: an observation
\* opposite to the state counts towards the threshold and flips the state
\* when it is reached; an observation equal to the state resets the count.
observe_health(h, health, flip_threshold) ==
    IF h.healthy # health
    THEN IF h.consecutive_counter + 1 >= flip_threshold
         THEN [healthy |-> health, consecutive_counter |-> 0]
         ELSE [h EXCEPT !.consecutive_counter = @ + 1]
    ELSE [h EXCEPT !.consecutive_counter = 0]

LbBackends == IF IsSome(balancer) THEN Range(Unwrap(balancer).backends) ELSE {}

\* Backends::ready
Healthy == {a \in LbBackends : lb_health[a].healthy}

LbFrame == UNCHANGED <<vars_reload, vars_auto, vars_acme, vars_gc, vars_store, vars_resolve,
                       vars_router, vars_serve, vars_filter, vars_json, vars_ext>>

\* LoadBalancer::new and set_health_check; every backend starts healthy.
LbNew ==
    /\ ~IsSome(balancer)
    /\ \E cfg \in LbConfigs :
         /\ lb_cfg' = cfg
         /\ balancer' = Some(LoadBalancer_new(cfg.upstreams, cfg.strategy))
    /\ UNCHANGED <<lb_counter, lb_health, sel, lb_begun, lb_done, lb_probes, g_selected, g_keys,
                   g_by_key, g_overlap, g_changed, g_run>>
    /\ LbFrame

\* select, first half: creating the iterator takes a value of the counter.
SelectBegin(p, key) ==
    /\ IsSome(balancer)
    /\ sel[p].pc = "idle"
    /\ lb_begun < MaxSelects
    /\ sel' = [sel EXCEPT ![p] = [pc |-> "iter", key |-> key, index |-> lb_counter, result |-> None]]
    /\ lb_counter' = fetch_add(lb_counter)
    /\ lb_begun' = lb_begun + 1
    /\ g_keys' = g_keys \cup {key}
    /\ g_overlap' = (g_overlap \/ \E q \in Selectors \ {p} : sel[q].pc = "iter")
    /\ UNCHANGED <<lb_cfg, balancer, lb_health, lb_done, lb_probes, g_selected, g_by_key, g_changed, g_run>>
    /\ LbFrame

\* select, second half: the loop over the iterator, and the return.
SelectEnd(p) ==
    /\ sel[p].pc = "iter"
    /\ LET out == unique_iter(Unwrap(balancer).backends, sel[p].index, TRUE, {}, 0, lb_counter, Healthy)
       IN  /\ sel' = [sel EXCEPT ![p].pc = "idle", ![p].result = out.result]
           /\ lb_counter' = out.counter
           /\ g_selected' = IF IsSome(out.result)
                            THEN [g_selected EXCEPT ![Unwrap(out.result)] = @ + 1]
                            ELSE g_selected
           /\ g_by_key' = [g_by_key EXCEPT ![sel[p].key] = @ \cup {out.result}]
    /\ lb_done' = lb_done + 1
    /\ UNCHANGED <<lb_cfg, balancer, lb_health, lb_begun, lb_probes, g_keys, g_overlap, g_changed, g_run>>
    /\ LbFrame

\* One probe of the health check service: check(target) succeeds or fails
\* and the outcome is observed with the threshold of health_threshold.
Probe(a, success) ==
    /\ IsSome(balancer)
    /\ a \in LbBackends
    /\ lb_probes < MaxProbes
    /\ LET h == observe_health(lb_health[a], success, health_threshold(lb_cfg, success))
       IN  /\ lb_health' = [lb_health EXCEPT ![a] = h]
           /\ g_changed' = (g_changed \/ (h.healthy # lb_health[a].healthy /\ lb_begun > 0))
    /\ g_run' = [g_run EXCEPT ![a] = IF @.outcome = Some(success)
                                     THEN [@ EXCEPT !.n = @ + 1]
                                     ELSE [outcome |-> Some(success), n |-> 1]]
    /\ lb_probes' = lb_probes + 1
    /\ UNCHANGED <<lb_cfg, balancer, lb_counter, sel, lb_begun, lb_done, g_selected, g_keys, g_by_key,
                   g_overlap>>
    /\ LbFrame

InitLb ==
    /\ lb_cfg = [upstreams |-> <<>>, strategy |-> "round_robin",
                 positive_threshold |-> 1, negative_threshold |-> 3]
    /\ balancer = None
    /\ lb_counter = 0
    /\ lb_health = [a \in Range(UpstreamAddrs) |-> [healthy |-> TRUE, consecutive_counter |-> 0]]
    /\ sel = [p \in Selectors |-> [pc |-> "idle", key |-> None, index |-> 0, result |-> None]]
    /\ lb_begun = 0
    /\ lb_done = 0
    /\ lb_probes = 0
    /\ g_selected = [a \in Range(UpstreamAddrs) |-> 0]
    /\ g_keys = {}
    /\ g_by_key = [k \in Keys |-> {}]
    /\ g_overlap = FALSE
    /\ g_changed = FALSE
    /\ g_run = [a \in Range(UpstreamAddrs) |-> [outcome |-> None, n |-> 0]]

NextLb ==
    \/ LbNew
    \/ \E p \in Selectors, key \in Keys : SelectBegin(p, key)
    \/ \E p \in Selectors : SelectEnd(p)
    \/ lb_probes < MaxProbesAmongSelects
          /\ \E a \in Range(UpstreamAddrs), success \in BOOLEAN : Probe(a, success)

NextHealth ==
    \/ LbNew
    \/ \E a \in Range(UpstreamAddrs), success \in BOOLEAN : Probe(a, success)

\* The select call of p returns in this step.
Returns(p) == sel[p].pc = "iter" /\ sel'[p].pc = "idle"

\* Two upstreams are configured, both healthy, the healthy set has not
\* changed since the first call, calls did not overlap and all were
\* select(None).
TwoHealthySequential ==
    /\ IsSome(balancer)
    /\ Len(lb_cfg.upstreams) = 2
    /\ Healthy = Range(lb_cfg.upstreams)
    /\ ~g_changed
    /\ ~g_overlap
    /\ g_keys = {None}

\* C24 as stated: over two healthy upstreams, the k-th sequential
\* select(None) returns the upstream at index k mod 2 of the configured list.
C24_RoundRobinConfiguredOrder ==
    [][\A p \in Selectors :
         (Returns(p) /\ TwoHealthySequential)
         => sel'[p].result = Some(lb_cfg.upstreams[(lb_done % 2) + 1])]_vars

\* C24 amended: the k-th sequential select(None) returns the upstream at
\* index k mod 2 of the two upstreams taken in ascending address order.
C24_RoundRobinAddressOrder ==
    [][\A p \in Selectors :
         (Returns(p) /\ TwoHealthySequential)
         => LET lo == CHOOSE a \in Range(lb_cfg.upstreams) :
                          \A b \in Range(lb_cfg.upstreams) : AddrRank(a) <= AddrRank(b)
                hi == CHOOSE a \in Range(lb_cfg.upstreams) :
                          \A b \in Range(lb_cfg.upstreams) : AddrRank(a) >= AddrRank(b)
            IN  sel'[p].result = Some(IF lb_done % 2 = 0 THEN lo ELSE hi)]_vars

\* Three sequential select(None) calls have returned over two healthy
\* upstreams configured in descending address order.
C24_Witness ==
    /\ TwoHealthySequential
    /\ lb_cfg.upstreams = <<UpstreamAddrs[2], UpstreamAddrs[1]>>
    /\ lb_done = 3
    /\ \A p \in Selectors : sel[p].pc = "idle"
    /\ g_selected[UpstreamAddrs[1]] = 2
    /\ g_selected[UpstreamAddrs[2]] = 1

\* T div K rounded up.
CeilDiv(t, k) == (t + k - 1) \div k

C26_IpHashSticky ==
    (IsSome(balancer) /\ lb_cfg.strategy = "ip_hash" /\ ~g_changed)
    => \A k \in Keys \ {None} : Cardinality(g_by_key[k]) <= 1

\* C27: a probe flips the health of a backend exactly when its outcome is
\* opposite to the state and completes a run of positive_threshold
\* consecutive successes (unhealthy to healthy) or negative_threshold
\* consecutive failures (healthy to unhealthy); a shorter or interrupted run
\* does not flip it.
C27_ThresholdFlips ==
    [][\A a \in LbBackends :
         (lb_probes' = lb_probes + 1 /\ g_run'[a] # g_run[a])
         => LET success == Unwrap(g_run'[a].outcome)
                needed  == IF success THEN lb_cfg.positive_threshold ELSE lb_cfg.negative_threshold
            IN  (lb_health'[a].healthy # lb_health[a].healthy)
                <=> (success # lb_health[a].healthy /\ g_run'[a].n = needed)]_vars

\* After four probes a backend whose negative threshold is 2 is unhealthy,
\* its last two probes being consecutive failures.
C27_Witness ==
    /\ IsSome(balancer)
    /\ lb_cfg.negative_threshold = 2
    /\ lb_probes = 4
    /\ \E a \in LbBackends :
         /\ ~lb_health[a].healthy
         /\ g_run[a] = [outcome |-> Some(FALSE), n |-> 2]

\* ------------------------------------------------------------------------
\* PingclairConnectionFilter (pingclair-proxy/src/connection_filter.rs)
\* ------------------------------------------------------------------------
\* Addresses are numbers of max_prefix_len bits: 2 bits stand for the 32 of
\* IPv4 and 3 bits for the 128 of IPv6.
max_prefix_len(family) == IF family = "v4" THEN 2 ELSE 3

RECURSIVE Pow2(_)
Pow2(n) == IF n = 0 THEN 1 ELSE 2 * Pow2(n - 1)

Families == {"v4", "v6"}

IpAddrs == {[family |-> f, addr |-> a] : f \in Families, a \in 0..7} \ {[family |-> "v4", addr |-> a] : a \in 4..7}

\* The strings of blocked_ips: "addr/prefix" (the prefix may be too long for
\* the family), a single address, or text that is neither.
BlockedStrings ==
    {[form |-> "cidr", ip |-> ip, prefix |-> n] : ip \in IpAddrs, n \in 0..4}
    \cup {[form |-> "ip", ip |-> ip] : ip \in IpAddrs}
    \cup {[form |-> "text"]}

\* str::parse::<IpNet>()
ParseIpNet(str) ==
    IF str.form = "cidr" /\ str.prefix <= max_prefix_len(str.ip.family)
    THEN Some([family |-> str.ip.family, addr |-> str.ip.addr, prefix_len |-> str.prefix])
    ELSE None

\* str::parse::<IpAddr>()
ParseIpAddr(str) == IF str.form = "ip" THEN Some(str.ip) ELSE None

\* IpNet::from(ip): the host net /32 or /128.
IpNet_from(ip) == [family |-> ip.family, addr |-> ip.addr, prefix_len |-> max_prefix_len(ip.family)]

HostBits(net) == Pow2(max_prefix_len(net.family) - net.prefix_len)

\* IpNet::network and IpNet::broadcast
network(net) == (net.addr \div HostBits(net)) * HostBits(net)

broadcast(net) == network(net) + HostBits(net) - 1

\* IpNet::contains(&IpAddr): same family and network <= ip <= broadcast.
IpNet_contains(net, ip) ==
    /\ net.family = ip.family
    /\ network(net) <= ip.addr
    /\ ip.addr <= broadcast(net)

\* A slip: a string that is not a net is dropped without trying a single IP.
ConnectionFilter_new_nets_only(blocked_ips) ==
    [blocked_cidrs |-> [i \in 1..Len(SelectSeq(blocked_ips, LAMBDA str : IsSome(ParseIpNet(str)))) |->
                           Unwrap(ParseIpNet(SelectSeq(blocked_ips, LAMBDA str : IsSome(ParseIpNet(str)))[i]))]]

\* PingclairConnectionFilter::new: each string is parsed as a net, else as a
\* single IP promoted to its host net, else skipped.
ConnectionFilter_new(blocked_ips) ==
    LET valid == SelectSeq(blocked_ips, LAMBDA str : IsSome(ParseIpNet(str)) \/ IsSome(ParseIpAddr(str)))
    IN  [blocked_cidrs |-> [i \in 1..Len(valid) |->
                               IF IsSome(ParseIpNet(valid[i])) THEN Unwrap(ParseIpNet(valid[i]))
                               ELSE IpNet_from(Unwrap(ParseIpAddr(valid[i])))]]

\* should_accept(addr_opt)
should_accept(filter, addr_opt) ==
    IF filter.blocked_cidrs = <<>> THEN TRUE
    ELSE IF IsSome(addr_opt)
         THEN ~\E i \in 1..Len(filter.blocked_cidrs) : IpNet_contains(filter.blocked_cidrs[i], Unwrap(addr_opt))
         ELSE TRUE

BlockedLists == {<<>>} \cup {<<x>> : x \in BlockedStrings} \cup (BlockedStrings \X BlockedStrings)

FilterFrame == UNCHANGED <<vars_reload, vars_auto, vars_acme, vars_gc, vars_store, vars_resolve,
                           vars_router, vars_serve, vars_lb, vars_json, vars_ext>>

FilterNew ==
    /\ ~IsSome(cf_filter)
    /\ \E blocked_ips \in BlockedLists :
         /\ cf_blocked_ips' = blocked_ips
         /\ cf_filter' = Some(ConnectionFilter_new(blocked_ips))
    /\ UNCHANGED <<cf_peer, cf_accept>>
    /\ FilterFrame

\* One inbound connection; the peer address may be unknown.
ShouldAccept ==
    /\ IsSome(cf_filter)
    /\ \E addr_opt \in {None} \cup {Some(ip) : ip \in IpAddrs} :
         /\ cf_peer' = Some(addr_opt)
         /\ cf_accept' = Some(should_accept(Unwrap(cf_filter), addr_opt))
    /\ UNCHANGED <<cf_blocked_ips, cf_filter>>
    /\ FilterFrame

InitFilter ==
    /\ cf_blocked_ips = <<>>
    /\ cf_filter = None
    /\ cf_peer = None
    /\ cf_accept = None

NextFilter ==
    \/ FilterNew
    \/ ShouldAccept

\* The string names a net, or a single IP, whose leading prefix bits are
\* those of ip.
Blocks(str, ip) ==
    LET bits == max_prefix_len(ip.family)
        n    == IF str.form = "ip" THEN bits ELSE str.prefix
    IN  /\ str.form \in {"cidr", "ip"}
        /\ str.ip.family = ip.family
        /\ n <= bits
        /\ \A k \in 1..n : (str.ip.addr \div Pow2(bits - k)) % 2 = (ip.addr \div Pow2(bits - k)) % 2

\* C28: a connection from a known peer IP is accepted if and only if no
\* configured blocked net, and no configured single IP, contains the peer IP.
C28_AcceptIffNotBlocked ==
    (IsSome(cf_accept) /\ IsSome(Unwrap(cf_peer)))
    => (Unwrap(cf_accept) <=>
            ~\E i \in 1..Len(cf_blocked_ips) : Blocks(cf_blocked_ips[i], Unwrap(Unwrap(cf_peer))))

\* A connection was refused because of a configured single IP, next to a
\* configured net that does not contain the peer.
C28_Witness ==
    /\ cf_accept = Some(FALSE)
    /\ IsSome(Unwrap(cf_peer))
    /\ Len(cf_blocked_ips) = 2
    /\ cf_blocked_ips[1].form = "cidr"
    /\ ~Blocks(cf_blocked_ips[1], Unwrap(Unwrap(cf_peer)))
    /\ cf_blocked_ips[2].form = "ip"
    /\ Blocks(cf_blocked_ips[2], Unwrap(Unwrap(cf_peer)))

\* ------------------------------------------------------------------------
\* JSON round trip of a compiled route: the serde attributes of Matcher,
\* MatcherCondition and HandlerConfig (pingclair-core/src/config/types.rs)
\* ------------------------------------------------------------------------
\* JSON values.  A leaf is a number, boolean, string, map of strings or list
\* of strings that serde_json writes and reads back unchanged and that no
\* deserializer of this section looks into.
JStr(s) == [j |-> "str", v |-> s]
JArr(items) == [j |-> "arr", v |-> items]
JObj(fields) == [j |-> "obj", v |-> fields]
JLeaf(x) == [j |-> "leaf", v |-> x]
JNull == [j |-> "null", v |-> <<>>]

Ok(x) == [ok |-> TRUE, v |-> x]
Err(why) == [ok |-> FALSE, why |-> why]

\* rename_all = "snake_case" on the variants of MatcherCondition.
ConditionTag(kind) ==
    CASE kind = "Exists" -> "exists"
      [] kind = "Equals" -> "equals"
      [] kind = "Contains" -> "contains"
      [] kind = "StartsWith" -> "starts_with"
      [] kind = "EndsWith" -> "ends_with"
      [] kind = "Regex" -> "regex"

ConditionKinds == {"Exists", "Equals", "Contains", "StartsWith", "EndsWith", "Regex"}

\* Serialize for MatcherCondition (externally tagged): a unit variant is its
\* name, a newtype variant an object with the name as only key.
serialize_condition(c) ==
    IF c.kind = "Exists" THEN JStr("exists")
    ELSE JObj([k \in {ConditionTag(c.kind)} |-> JStr(c.arg)])

\* Deserialize for MatcherCondition.
deserialize_condition(x) ==
    IF x.j = "str"
    THEN IF x.v = "exists" THEN Ok([kind |-> "Exists"]) ELSE Err("variant")
    ELSE IF x.j = "obj" /\ Cardinality(DOMAIN x.v) = 1
    THEN LET k     == CHOOSE key \in DOMAIN x.v : TRUE
             kinds == {kind \in ConditionKinds \ {"Exists"} : ConditionTag(kind) = k}
         IN  IF kinds # {} /\ x.v[k].j = "str"
             THEN Ok([kind |-> CHOOSE kind \in kinds : TRUE, arg |-> x.v[k].v])
             ELSE Err("variant")
    ELSE Err("type")

StrArr(items) == JArr([i \in 1..Len(items) |-> JStr(items[i])])

\* Deserialize for Vec<String>.
VecString(x) ==
    IF x.j = "arr" /\ \A i \in 1..Len(x.v) : x.v[i].j = "str"
    THEN Ok([i \in 1..Len(x.v) |-> x.v[i].v])
    ELSE Err("type")

\* Serialize for Matcher (untagged): a struct variant is the object of its
\* fields, a newtype variant is its content, a tuple variant is an array.
RECURSIVE serialize_matcher(_)
serialize_matcher(m) ==
    CASE m.kind = "Path"     -> JObj([patterns |-> StrArr(m.patterns)])
      [] m.kind = "Header"   -> JObj([name |-> JStr(m.name), condition |-> serialize_condition(m.condition)])
      [] m.kind = "Method"   -> JObj([methods |-> StrArr(m.methods)])
      [] m.kind = "Query"    -> JObj([name |-> JStr(m.name), condition |-> serialize_condition(m.condition)])
      [] m.kind = "Host"     -> StrArr(m.hosts)
      [] m.kind = "RemoteIp" -> StrArr(m.ips)
      [] m.kind = "Protocol" -> StrArr(m.protocols)
      [] m.kind = "And"      -> JArr(<<serialize_matcher(m.left), serialize_matcher(m.right)>>)
      [] m.kind = "Or"       -> JArr(<<serialize_matcher(m.left), serialize_matcher(m.right)>>)
      [] m.kind = "Not"      -> serialize_matcher(m.inner)

\* A struct variant with one Vec<String> field, read from an object that has
\* the field or from an array of that one element.
OneListStruct(x, field) ==
    IF x.j = "obj" /\ field \in DOMAIN x.v THEN VecString(x.v[field])
    ELSE IF x.j = "arr" /\ Len(x.v) = 1 THEN VecString(x.v[1])
    ELSE Err("type")

\* A struct variant { name: String, condition: MatcherCondition }, read from
\* an object or from an array of the two.
NameConditionStruct(x) ==
    LET name == IF x.j = "obj" /\ {"name", "condition"} \subseteq DOMAIN x.v THEN Some(x.v.name)
                ELSE IF x.j = "arr" /\ Len(x.v) = 2 THEN Some(x.v[1]) ELSE None
        cond == IF x.j = "obj" /\ {"name", "condition"} \subseteq DOMAIN x.v THEN Some(x.v.condition)
                ELSE IF x.j = "arr" /\ Len(x.v) = 2 THEN Some(x.v[2]) ELSE None
    IN  IF IsSome(name) /\ Unwrap(name).j = "str" /\ deserialize_condition(Unwrap(cond)).ok
        THEN Ok([name |-> Unwrap(name).v, condition |-> deserialize_condition(Unwrap(cond)).v])
        ELSE Err("type")

\* Deserialize for Matcher (untagged): the variants are tried in the order
\* of their declaration and the first that accepts the value is taken.  Not
\* is the last: its content is again a Matcher read from the same value, so a
\* value that no other variant accepts recurses without end.  Query accepts
\* what Header accepts, RemoteIp and Protocol what Host accepts and Or what And
\* accepts, and each comes after it, so none of the four is ever taken.
RECURSIVE deserialize_matcher(_)
deserialize_matcher(x) ==
    IF OneListStruct(x, "patterns").ok
    THEN Ok([kind |-> "Path", patterns |-> OneListStruct(x, "patterns").v])
    ELSE IF NameConditionStruct(x).ok
    THEN Ok([kind |-> "Header", name |-> NameConditionStruct(x).v.name,
             condition |-> NameConditionStruct(x).v.condition])
    ELSE IF OneListStruct(x, "methods").ok
    THEN Ok([kind |-> "Method", methods |-> OneListStruct(x, "methods").v])
    ELSE IF VecString(x).ok
    THEN Ok([kind |-> "Host", hosts |-> VecString(x).v])
    ELSE IF x.j = "arr" /\ Len(x.v) = 2
            /\ deserialize_matcher(x.v[1]).ok /\ deserialize_matcher(x.v[2]).ok
    THEN Ok([kind |-> "And", left |-> deserialize_matcher(x.v[1]).v,
             right |-> deserialize_matcher(x.v[2]).v])
    ELSE Err("recursion")

\* The variants of HandlerConfig that are a newtype over a Vec.
SeqNewtypes == {"pipeline", "handle"}

\* Serialize for HandlerConfig (tag = "type", snake_case): the object of the
\* variant's fields with the tag added.  A newtype variant over a sequence
\* cannot carry the tag and is an error.  The handlers of HandlePath are
\* serialized in turn.
RECURSIVE serialize_handler(_)
serialize_handler(h) ==
    IF h.type \in SeqNewtypes THEN Err("tagged newtype variant containing a sequence")
    ELSE IF h.type = "handle_path"
    THEN IF \A i \in 1..Len(h.handlers) : serialize_handler(h.handlers[i]).ok
         THEN Ok(JObj([type |-> JStr(h.type), prefix |-> JLeaf(h.prefix),
                       handlers |-> JArr([i \in 1..Len(h.handlers) |-> serialize_handler(h.handlers[i]).v])]))
         ELSE Err("tagged newtype variant containing a sequence")
    ELSE Ok(JObj([k \in DOMAIN h |-> IF k = "type" THEN JStr(h.type) ELSE JLeaf(h[k])]))

HandlerTags ==
    {"file_server", "reverse_proxy", "redirect", "rewrite", "respond", "headers", "pipeline",
     "handle", "basic_auth", "rate_limit", "handle_errors", "handle_path", "plugin"}

\* Deserialize for HandlerConfig: the variant is chosen by the "type" field
\* and read from the other fields.
RECURSIVE deserialize_handler(_)
deserialize_handler(x) ==
    IF ~(x.j = "obj" /\ "type" \in DOMAIN x.v /\ x.v.type.j = "str" /\ x.v.type.v \in HandlerTags)
    THEN Err("type")
    ELSE IF x.v.type.v \in SeqNewtypes THEN Err("map for a sequence")
    ELSE IF x.v.type.v = "handle_path"
    THEN IF /\ {"prefix", "handlers"} \subseteq DOMAIN x.v
            /\ x.v.handlers.j = "arr"
            /\ \A i \in 1..Len(x.v.handlers.v) : deserialize_handler(x.v.handlers.v[i]).ok
         THEN Ok([type |-> "handle_path", prefix |-> x.v.prefix.v,
                  handlers |-> [i \in 1..Len(x.v.handlers.v) |-> deserialize_handler(x.v.handlers.v[i]).v]])
         ELSE Err("type")
    ELSE Ok([k \in DOMAIN x.v |-> x.v[k].v])

\* Serialize for RouteConfig.
serialize_route(route) ==
    LET handler == serialize_handler(route.handler)
    IN  IF handler.ok
        THEN Ok(JObj([path    |-> JLeaf(route.path),
                      handler |-> handler.v,
                      methods |-> JLeaf(route.methods),
                      matcher |-> IF IsSome(route.matcher)
                                  THEN serialize_matcher(Unwrap(route.matcher)) ELSE JNull]))
        ELSE handler

\* Deserialize for RouteConfig.
deserialize_route(x) ==
    LET handler == deserialize_handler(x.v.handler)
        matcher == IF x.v.matcher.j = "null" THEN Ok(None)
                   ELSE IF deserialize_matcher(x.v.matcher).ok
                        THEN Ok(Some(deserialize_matcher(x.v.matcher).v))
                        ELSE deserialize_matcher(x.v.matcher)
    IN  IF ~handler.ok THEN handler
        ELSE IF ~matcher.ok THEN matcher
        ELSE Ok([path |-> x.v.path.v, handler |-> handler.v, methods |-> x.v.methods.v,
                 matcher |-> matcher.v])

\* One handler of every variant of HandlerConfig.
JsonHandlers ==
    {[type |-> "file_server", root |-> "/srv", index |-> <<>>, browse |-> FALSE, compress |-> TRUE],
     ReverseProxy("v0"),
     [type |-> "redirect", to |-> "/new", code |-> 302],
     [type |-> "rewrite", strip_prefix |-> Some("/api"), strip_suffix |-> None, replace |-> None,
      regex |-> None, regex_replace |-> None],
     Respond("hi"),
     HeadersHandler,
     [type |-> "pipeline", handlers |-> <<HeadersHandler, ReverseProxy("v0")>>],
     [type |-> "handle", handlers |-> <<Respond("hi")>>],
     [type |-> "basic_auth", realm |-> "r", credentials |-> <<"u:p">>],
     [type |-> "rate_limit", requests |-> 10, window_secs |-> 60, by_ip |-> TRUE, burst |-> 0],
     [type |-> "handle_errors", errors |-> <<>>],
     [type |-> "handle_path", prefix |-> "/api", handlers |-> <<Respond("hi")>>],
     [type |-> "handle_path", prefix |-> "/api",
      handlers |-> <<[type |-> "handle", handlers |-> <<Respond("hi")>>]>>],
     [type |-> "plugin", name |-> "p", args |-> <<>>]}

BaseMatchers ==
    {[kind |-> "Path", patterns |-> <<"/api/*">>],
     [kind |-> "Header", name |-> "x-env", condition |-> [kind |-> "Exists"]],
     [kind |-> "Header", name |-> "x-env", condition |-> [kind |-> "StartsWith", arg |-> "prod"]],
     [kind |-> "Method", methods |-> <<"GET", "POST">>],
     [kind |-> "Query", name |-> "debug", condition |-> [kind |-> "Equals", arg |-> "1"]],
     [kind |-> "Host", hosts |-> <<"a.com", "b.com">>],
     [kind |-> "RemoteIp", ips |-> <<"127.0.0.1">>],
     [kind |-> "Protocol", protocols |-> <<"https">>]}

\* Matchers of every variant, the combinators over a few of the others.
JsonMatchers ==
    LET few == {m \in BaseMatchers : m.kind \in {"Path", "Host", "Query"}}
    IN  BaseMatchers
        \cup {[kind |-> "And", left |-> l, right |-> r] : l \in few, r \in few}
        \cup {[kind |-> "Or", left |-> l, right |-> r] : l \in few, r \in few}
        \cup {[kind |-> "Not", inner |-> m] : m \in few}

JsonRoutes ==
    {[path |-> "/*", handler |-> h, methods |-> None, matcher |-> m] :
        h \in JsonHandlers, m \in {None} \cup {Some(x) : x \in JsonMatchers}}

JsonFrame == UNCHANGED <<vars_reload, vars_auto, vars_acme, vars_gc, vars_store, vars_resolve,
                         vars_router, vars_serve, vars_lb, vars_filter, vars_ext>>

\* The compiler hands over a route.
JsonCompile ==
    /\ js_pc = "start"
    /\ \E route \in JsonRoutes : js_config' = route
    /\ js_pc' = "compiled"
    /\ UNCHANGED <<js_json, js_back>>
    /\ JsonFrame

\* serde_json::to_string_pretty
JsonSerialize ==
    /\ js_pc = "compiled"
    /\ js_json' = serialize_route(js_config)
    /\ js_pc' = "serialized"
    /\ UNCHANGED <<js_config, js_back>>
    /\ JsonFrame

\* serde_json::from_slice on the text that was written.
JsonDeserialize ==
    /\ js_pc = "serialized"
    /\ js_json.ok
    /\ js_back' = deserialize_route(js_json.v)
    /\ js_pc' = "deserialized"
    /\ UNCHANGED <<js_config, js_json>>
    /\ JsonFrame

InitJson ==
    /\ js_pc = "start"
    /\ js_config = [path |-> "/*", handler |-> Respond("hi"), methods |-> None, matcher |-> None]
    /\ js_json = Err("none")
    /\ js_back = Err("none")

NextJson ==
    \/ JsonCompile
    \/ JsonSerialize
    \/ JsonDeserialize

\* The matcher read back is the matcher that was written.
SameMatcher(a, b) == IsSome(a) = IsSome(b) /\ (IsSome(a) => (Unwrap(a).kind = Unwrap(b).kind /\ a = b))

\* C30: every compiled route has a JSON serialization, and deserializing it
\* yields a route equal to the compiled one.
C30_JsonRoundTripFixedPoint ==
    /\ js_pc = "serialized" => js_json.ok
    /\ js_pc = "deserialized" =>
          /\ js_back.ok
          /\ js_back.v.handler.type = js_config.handler.type
          /\ js_back.v.handler = js_config.handler
          /\ SameMatcher(js_back.v.matcher, js_config.matcher)

\* ------------------------------------------------------------------------
\* Configuration compiler (pingclair-config/src/compiler.rs) behind the
\* Caddyfile adapter and the semantic analyzer
\* ------------------------------------------------------------------------
\* Matchers of the AST.  A named matcher is referred to as Named("@x"); the
\* ServerBlock keeps the definitions in `matchers`, name -> Matcher.
Named(name) == [kind |-> "Named", name |-> name]
AstPath(patterns) == [kind |-> "Path", patterns |-> patterns]
AstMethod(methods) == [kind |-> "Method", methods |-> methods]
AstHeaderEquals(name, v) == [kind |-> "Header", name |-> name, condition |-> [kind |-> "Equals", arg |-> v]]
AstAnd(l, r) == [kind |-> "And", left |-> l, right |-> r]
AstOr(l, r) == [kind |-> "Or", left |-> l, right |-> r]
AstNot(m) == [kind |-> "Not", inner |-> m]

\* Handler::Respond with a string body, as adapt_handler builds it.
AstRespond(v) == [kind |-> "Respond", status |-> 200, body |-> Some(v)]

RouteArm(matcher, handler) == [matcher |-> matcher, handler |-> handler]

\* format!("{:?}", m).to_uppercase() of an HttpMethod
DebugUpper(m) ==
    CASE m = "Get" -> "GET"
      [] m = "Post" -> "POST"
      [] m = "Put" -> "PUT"
      [] m = "Delete" -> "DELETE"

\* SemanticAnalyzer::validate for one server: a second default arm is an
\* InvalidConfig error; the matchers of the arms are not looked at.
validate(server) ==
    IF Cardinality({i \in 1..Len(server.arms) : server.arms[i].matcher = None}) > 1
    THEN Err("InvalidConfig")
    ELSE Ok(server)

\* find_path_pattern: the first pattern of the first Path matcher found,
\* going through named matchers and the two sides of And and Or.
RECURSIVE find_path_pattern(_, _)
find_path_pattern(matcher, matchers) ==
    CASE matcher.kind = "Path" ->
            IF matcher.patterns = <<>> THEN None ELSE Some(matcher.patterns[1])
      [] matcher.kind = "Named" ->
            IF matcher.name \in DOMAIN matchers
            THEN find_path_pattern(matchers[matcher.name], matchers)
            ELSE None
      [] matcher.kind \in {"And", "Or"} ->
            LET l == find_path_pattern(matcher.left, matchers)
            IN  IF IsSome(l) THEN l ELSE find_path_pattern(matcher.right, matchers)
      [] OTHER -> None

\* A slip: a reference to an undefined name compiles to a matcher that
\* refuses every request.
compile_matcher_undefined_refuses(name) == [kind |-> "Path", patterns |-> <<>>]

\* The CoreMatcher compile_matcher returns for a name `matchers` does not hold.
compile_matcher_undefined(name) == [kind |-> "Path", patterns |-> <<<<"/", "*">>>>]

\* compile_matcher
RECURSIVE compile_matcher(_, _)
compile_matcher(matcher, matchers) ==
    CASE matcher.kind = "Named" ->
            IF matcher.name \in DOMAIN matchers
            THEN compile_matcher(matchers[matcher.name], matchers)
            ELSE compile_matcher_undefined(matcher.name)
      [] matcher.kind = "Path" -> [kind |-> "Path", patterns |-> matcher.patterns]
      [] matcher.kind = "Header" ->
            [kind |-> "Header", name |-> matcher.name,
             condition |-> [kind |-> matcher.condition.kind, arg |-> matcher.condition.arg]]
      [] matcher.kind = "Method" ->
            [kind |-> "Method", methods |-> [i \in 1..Len(matcher.methods) |-> DebugUpper(matcher.methods[i])]]
      [] matcher.kind = "And" ->
            [kind |-> "And", left |-> compile_matcher(matcher.left, matchers),
             right |-> compile_matcher(matcher.right, matchers)]
      [] matcher.kind = "Or" ->
            [kind |-> "Or", left |-> compile_matcher(matcher.left, matchers),
             right |-> compile_matcher(matcher.right, matchers)]
      [] matcher.kind = "Not" ->
            [kind |-> "Not", inner |-> compile_matcher(matcher.inner, matchers)]

\* compile_handler, for the handler of this model.
compile_handler(handler) == Ok(Respond(Unwrap(handler.body)))

\* compile_route_arm
compile_route_arm(arm, matchers) ==
    LET found   == IF IsSome(arm.matcher) THEN find_path_pattern(Unwrap(arm.matcher), matchers) ELSE None
        path    == IF IsSome(found) THEN Unwrap(found) ELSE <<"/", "*">>
        matcher == IF IsSome(arm.matcher) THEN Some(compile_matcher(Unwrap(arm.matcher), matchers)) ELSE None
        handler == compile_handler(arm.handler)
    IN  IF ~handler.ok THEN handler
        ELSE Ok([path |-> path, handler |-> handler.v, methods |-> None, matcher |-> matcher])

\* The route loop of compile_server: the first arm that fails ends it.
compile_routes(server) ==
    LET compiled == [i \in 1..Len(server.arms) |-> compile_route_arm(server.arms[i], server.matchers)]
    IN  IF \E i \in 1..Len(compiled) : ~compiled[i].ok
        THEN compiled[CHOOSE i \in 1..Len(compiled) : ~compiled[i].ok /\ \A j \in 1..(i - 1) : compiled[j].ok]
        ELSE Ok([i \in 1..Len(compiled) |-> compiled[i].v])

\* analyze, then compile_ast
compile(server) ==
    LET analyzed == validate(server)
    IN  IF ~analyzed.ok THEN analyzed ELSE compile_routes(analyzed.v)

\* The named matchers a site may define (parse_matcher_definition).
MatcherDefs ==
    [n \in {"@api", "@two", "@post"} |->
        CASE n = "@api"  -> AstPath(<<<<"/", "api", "/", "*">>>>)
          [] n = "@two"  -> AstPath(<<<<"/", "a">>, <<"/", "b">>>>)
          [] n = "@post" -> AstAnd(AstMethod(<<"Post">>), AstHeaderEquals("x-env", <<"prod">>))]

\* The matchers of a route arm: a reference to a name (parse_matcher_and_block),
\* the combinations parse_matcher builds, or none (the default arm).
ArmMatchers ==
    {None, Some(Named("@api")), Some(Named("@two")), Some(Named("@post")),
     Some(AstOr(AstPath(<<<<"/", "a">>>>), AstMethod(<<"Post">>))),
     Some(AstOr(AstPath(<<<<"/", "a">>>>), AstPath(<<<<"/", "b">>>>))),
     Some(AstAnd(AstNot(AstMethod(<<"Post">>)), AstPath(<<<<"/", "api", "/", "*">>>>)))}

ArmLists ==
    {<<RouteArm(m, AstRespond("one"))>> : m \in ArmMatchers}
    \cup {<<RouteArm(m1, AstRespond("one")), RouteArm(m2, AstRespond("two"))>> : m1, m2 \in ArmMatchers}

ServerBlocks ==
    {[matchers |-> [n \in defined |-> MatcherDefs[n]], arms |-> arms] :
        defined \in SUBSET (DOMAIN MatcherDefs), arms \in ArmLists}

CompileRequests ==
    {[PlainRequest(p, "a.com") EXCEPT !.method = m, !.headers = [n \in HeaderNames |-> h]] :
        p \in {<<"/", "a">>, <<"/", "b">>, <<"/", "api", "/", "v1">>, <<"/", "x">>},
        m \in {"GET", "POST"}, h \in {None, Some(<<"prod">>)}}

CompileFrame == UNCHANGED <<vars_base, vars_renew, vars_range, vars_file, vars_conn, vars_daemon>>

\* parse and adapt: the ServerBlock of a site.
Adapt ==
    /\ cp_pc = "start"
    /\ \E server \in ServerBlocks : cp_block' = server
    /\ cp_pc' = "adapted"
    /\ UNCHANGED <<cp_routes, cp_router, cp_request, cp_result>>
    /\ CompileFrame

\* pingclair_config::compile
Compile ==
    /\ cp_pc = "adapted"
    /\ cp_routes' = compile(cp_block)
    /\ cp_pc' = "compiled"
    /\ UNCHANGED <<cp_block, cp_router, cp_request, cp_result>>
    /\ CompileFrame

\* Router::new over the compiled routes.
CompileRouter ==
    /\ cp_pc = "compiled"
    /\ cp_routes.ok
    /\ \E order \in GroupOrders(cp_routes.v) : cp_router' = Some(Router_new(cp_routes.v, order))
    /\ cp_pc' = "routed"
    /\ UNCHANGED <<cp_block, cp_routes, cp_request, cp_result>>
    /\ CompileFrame

\* Router::match_request for a request.
CompileMatch ==
    /\ cp_pc = "routed"
    /\ \E q \in CompileRequests :
          /\ cp_request' = Some(q)
          /\ cp_result' = match_request(Unwrap(cp_router), q)
    /\ UNCHANGED <<cp_pc, cp_block, cp_routes, cp_router>>
    /\ CompileFrame

InitCompile ==
    /\ cp_pc = "start"
    /\ cp_block = [matchers |-> <<>>, arms |-> <<>>]
    /\ cp_routes = Err("none")
    /\ cp_router = None
    /\ cp_request = None
    /\ cp_result = None

NextCompile ==
    \/ Adapt
    \/ Compile
    \/ CompileRouter
    \/ CompileMatch

\* The names the arms of a block refer to.
RECURSIVE NamesIn(_)
NamesIn(matcher) ==
    CASE matcher.kind = "Named" -> {matcher.name}
      [] matcher.kind \in {"And", "Or"} -> NamesIn(matcher.left) \cup NamesIn(matcher.right)
      [] matcher.kind = "Not" -> NamesIn(matcher.inner)
      [] OTHER -> {}

Referenced(server) ==
    UNION {NamesIn(Unwrap(server.arms[i].matcher)) : i \in {j \in 1..Len(server.arms) : IsSome(server.arms[j].matcher)}}

\* C31: a ServerBlock one of whose route arms refers to a named matcher that
\* the block does not define is rejected by compile.
C31_UndefinedMatcherRejected ==
    (cp_pc = "compiled" /\ ~(Referenced(cp_block) \subseteq DOMAIN cp_block.matchers)) => ~cp_routes.ok

\* C38: when some compiled route passes for the request (its matcher and
\* its method constraint accept it), match_request returns a route.
C38_RoutingComplete ==
    (/\ cp_pc = "routed"
     /\ IsSome(cp_request)
     /\ \E i \in 1..Len(cp_routes.v) : Passes(cp_routes.v[i], Unwrap(cp_request)))
        => IsSome(cp_result)

\* ------------------------------------------------------------------------
\* Certificate::needs_renewal on machine integers (pingclair-tls/src/acme.rs)
\* ------------------------------------------------------------------------
\* expires_at and now are i64 seconds.  Here the unit is a day and the word
\* has IntWidth bits, two's complement; the renewal window is 30 units.
IntWidth == 8
RenewalWindow == 30

IntMin == -Pow2(IntWidth - 1)
IntMax == Pow2(IntWidth - 1) - 1

\* The value of the word an out-of-range result wraps to.
wrapping(x) == ((x - IntMin) % Pow2(IntWidth)) + IntMin

\* A slip: the comparison lets a certificate with exactly the window left
\* count as needing renewal.
remaining_below_or_at(remaining, window) == remaining <= window

\* The comparison of needs_renewal.
remaining_below(remaining, window) == remaining < window

\* self.expires_at - now < 30 * 24 * 60 * 60: what the builds can produce.  A
\* subtraction that leaves the word panics where overflow is checked (the dev
\* profile) and wraps where it is not (the release profile).
Certificate_needs_renewal(expires_at, current) ==
    LET remaining == expires_at - current
    IN  IF remaining \in IntMin..IntMax
        THEN {Ok(remaining_below(remaining, RenewalWindow))}
        ELSE {Err("attempt to subtract with overflow"),
              Ok(remaining_below(wrapping(remaining), RenewalWindow))}

RenewFrame == UNCHANGED <<vars_base, vars_compile, vars_range, vars_file, vars_conn, vars_daemon>>

\* One call of needs_renewal on a certificate with the given expiry, the
\* clock reading `current` seconds since the epoch.
NeedsRenewalCall ==
    /\ nr_call = None
    /\ \E expires_at \in IntMin..IntMax, current \in 0..IntMax :
          \E out \in Certificate_needs_renewal(expires_at, current) :
             nr_call' = Some([expires_at |-> expires_at, now |-> current, out |-> out])
    /\ RenewFrame

InitRenew == nr_call = None

NextRenew == NeedsRenewalCall

\* C32: needs_renewal returns true if and only if expires_at - now is less
\* than the window, whatever the expiry, expired certificates included.
C32_NeedsRenewalIffWithinWindow ==
    IsSome(nr_call) =>
        LET c == Unwrap(nr_call)
        IN  /\ c.out.ok
            /\ c.out.v = (c.expires_at - c.now < RenewalWindow)

\* Where the subtraction stays inside the word the answer is the comparison.
NeedsRenewalInRange ==
    IsSome(nr_call) =>
        LET c == Unwrap(nr_call)
        IN  (c.expires_at - c.now >= IntMin) =>
                (c.out.ok /\ c.out.v = (c.expires_at - c.now < RenewalWindow))

\* ------------------------------------------------------------------------
\* FileServer::parse_range (pingclair-static/src/file_server.rs)
\* ------------------------------------------------------------------------
\* File sizes and byte positions are u64; here the word has SizeWidth bits.
SizeWidth == 3
SizeMax == Pow2(SizeWidth) - 1

\* A Range header is its prefix and what follows it, cut at every '-'.  A
\* piece is a numeral that fits the word, the empty string, or text that
\* str::parse::<u64> refuses (letters, a numeral too large for the word).
Numeral(n) == [t |-> "numeral", n |-> n]
EmptyPiece == [t |-> "empty"]
JunkPiece == [t |-> "junk"]

RangePieces == {Numeral(n) : n \in 0..SizeMax} \cup {EmptyPiece, JunkPiece}

RangeHeader(prefix, parts) == [prefix |-> prefix, parts |-> parts]

RangeHeaders ==
    {RangeHeader(p, parts) :
        p \in {"bytes=", "items="},
        parts \in {<<a>> : a \in RangePieces}
                  \cup {<<a, b>> : a, b \in RangePieces}
                  \cup {<<Numeral(0), b, EmptyPiece>> : b \in RangePieces}}

\* str::parse::<u64>().ok()
parse_u64(piece) == IF piece.t = "numeral" THEN Some(piece.n) ELSE None

Min(a, b) == IF a <= b THEN a ELSE b

\* A slip: a range whose end lies past the end of the file is refused.
range_refused_past_end(start, end, file_size) == start > end \/ end >= file_size

\* The test after which parse_range returns None.
range_refused(start, end, file_size) == start > end \/ start >= file_size

\* parse_range: what the builds can produce.  file_size - 1 on an empty file
\* panics where overflow is checked and wraps to the largest word where it
\* is not.
parse_range(header, file_size) ==
    IF header.prefix # "bytes=" THEN {Ok(None)}
    ELSE IF Len(header.parts) # 2 THEN {Ok(None)}
    ELSE LET start_opt == parse_u64(header.parts[1])
             end_opt   == parse_u64(header.parts[2])
             start     == IF IsSome(start_opt) THEN Unwrap(start_opt) ELSE 0
             answer(end) ==
                 IF range_refused(start, end, file_size) THEN Ok(None)
                 ELSE Ok(Some(<<start, Min(end, file_size - 1)>>))
         IN  IF IsSome(end_opt) THEN {answer(Unwrap(end_opt))}
             ELSE IF file_size = 0
             THEN {Err("attempt to subtract with overflow"), answer(SizeMax)}
             ELSE {answer(file_size - 1)}

RangeFrame == UNCHANGED <<vars_base, vars_compile, vars_renew, vars_file, vars_conn, vars_daemon>>

\* One call of parse_range.
ParseRangeCall ==
    /\ pr_call = None
    /\ \E header \in RangeHeaders, file_size \in 0..SizeMax :
          \E out \in parse_range(header, file_size) :
             pr_call' = Some([header |-> header, file_size |-> file_size, out |-> out])
    /\ RangeFrame

InitRange == pr_call = None

NextRange == ParseRangeCall

\* The call was parse_range("bytes=A-B", N) with numerals A and B.
IsBytesAB(c) ==
    /\ c.header.prefix = "bytes="
    /\ Len(c.header.parts) = 2
    /\ c.header.parts[1].t = "numeral"
    /\ c.header.parts[2].t = "numeral"

FileRoot == <<"srv", "www">>

\* The files and directories of the machine, by canonical path.
FileTree ==
    [p \in {<<>>, <<"srv">>, <<"srv", "www">>, <<"srv", "www", "a">>,
            <<"srv", "www", "index.html">>, <<"srv", "www", "a", "b.txt">>,
            <<"srv", "secret.txt">>} |->
        IF p \in {<<"srv", "www", "index.html">>, <<"srv", "www", "a", "b.txt">>, <<"srv", "secret.txt">>}
        THEN "file" ELSE "dir"]

IndexFiles == <<"index.html">>

\* A request path: its leading slashes and the components after them.
UrlPaths ==
    LET names == {"a", "b.txt", "..", "secret.txt", "index.html"}
    IN  {[slashes |-> n, parts |-> parts] :
            n \in 1..2,
            parts \in {<<>>} \cup {<<x>> : x \in names} \cup {<<x, y>> : x, y \in names}
                      \cup {<<x, y, z>> : x, y, z \in names}}

\* path.trim_start_matches('/'): what is left is a relative path.
trim_start_matches(path) == [absolute |-> FALSE, parts |-> path.parts]

\* PathBuf::join: an absolute argument replaces the base, a relative one is
\* appended to it, component by component and as written.
PathBuf_join(base, path) == IF path.absolute THEN path.parts ELSE base \o path.parts

\* Path::starts_with: the components of `base` are the first components.
Path_starts_with(path, base) == starts_with(path, base)

\* The walk the operating system makes for metadata and open: ".." steps to
\* the parent directory, a name must exist, and all but the last must be
\* directories.  The result is the canonical path, or None (ENOENT, ENOTDIR).
RECURSIVE Walk(_, _)
Walk(cur, rest) ==
    IF rest = <<>> THEN Some(cur)
    ELSE IF FileTree[cur] # "dir" THEN None
    ELSE IF Head(rest) = ".."
    THEN Walk(IF cur = <<>> THEN <<>> ELSE SubSeq(cur, 1, Len(cur) - 1), Tail(rest))
    ELSE IF (cur \o <<Head(rest)>>) \notin DOMAIN FileTree THEN None
    ELSE Walk(cur \o <<Head(rest)>>, Tail(rest))

metadata(path) == Walk(<<>>, path)

\* A slip: the joined path is refused when it holds a ".." component.
traversal_refused_dotdot(file_path, root) ==
    ~Path_starts_with(file_path, root) \/ \E i \in 1..Len(file_path) : file_path[i] = ".."

\* The test after which serve returns Ok(None): "Prevent path traversal".
traversal_refused(file_path, root) == ~Path_starts_with(file_path, root)

\* serve without a Range header, browse off: the canonical path of the file
\* whose content is returned, or None.
serve(root, path) ==
    LET file_path == PathBuf_join(root, trim_start_matches(path))
        meta      == metadata(file_path)
    IN  IF traversal_refused(file_path, root) THEN None
        ELSE IF ~IsSome(meta) THEN None
        ELSE IF FileTree[Unwrap(meta)] = "dir"
        THEN LET found == SelectSeq(IndexFiles, LAMBDA index : IsSome(metadata(file_path \o <<index>>)))
             IN  IF found = <<>> THEN None
                 ELSE metadata(file_path \o <<found[1]>>)
        ELSE meta

FileFrame == UNCHANGED <<vars_base, vars_compile, vars_renew, vars_range, vars_conn, vars_daemon>>

\* One call of serve.
Serve ==
    /\ fs_call = None
    /\ \E path \in UrlPaths :
          fs_call' = Some([path |-> path, served |-> serve(FileRoot, path)])
    /\ FileFrame

InitFile == fs_call = None

NextFile == Serve

\* C34: the file whose content serve returns lies under the root.
C34_ServedFileUnderRoot ==
    (IsSome(fs_call) /\ IsSome(Unwrap(fs_call).served)) =>
        Path_starts_with(Unwrap(Unwrap(fs_call).served), FileRoot)

\* Paths without ".." are served from under the root.
ServedPlainUnderRoot ==
    (IsSome(fs_call) /\ IsSome(Unwrap(fs_call).served)
        /\ \A i \in 1..Len(Unwrap(fs_call).path.parts) : Unwrap(fs_call).path.parts[i] # "..") =>
        Path_starts_with(Unwrap(Unwrap(fs_call).served), FileRoot)

\* ------------------------------------------------------------------------
\* Active-connection accounting over the whole life of a proxied request
\* (pingclair-proxy/src/server.rs; the order of the callbacks is pingora's)
\* ------------------------------------------------------------------------
MaxRequests == 2

\* The pools of the site: one upstream, two, and one whose address
\* parse_upstream refuses.
ConnPools ==
    {<<UpstreamAddrs[1]>>, <<UpstreamAddrs[2], UpstreamAddrs[1]>>, <<"backend:http">>}

ConnFrame ==
    UNCHANGED <<vars_auto, vars_acme, vars_gc, vars_store, vars_resolve, vars_router, vars_lb,
                vars_filter, vars_json, vars_compile, vars_renew, vars_range, vars_file, vars_daemon>>

ReloadUntouched ==
    UNCHANGED <<rl_pc, rl_src, rl_todo, rl_updated, rl_errors, rl_outcome, rl_count, g_before,
                g_clean, g_replaced, g_old_ids, g_stale, g_peer_saw>>

\* run_server for a site that proxies every path to one pool.
ConnRunServer ==
    /\ ~sv_started
    /\ \E pool \in ConnPools :
         LET servers == <<ServerConfig(None, <<Addr80>>, <<Route(<<"/", "*">>, ProxyTo(pool))>>)>>
         IN  /\ port_proxies' = Startup(Bindings(servers), [a \in {} |-> EmptyProxy], 1)
             /\ next_arc' = Len(Bindings(servers)) + 1
             /\ active_connections' = StartupCounters(Bindings(servers), 1)
    /\ sv_started' = TRUE
    /\ UNCHANGED <<resp, sv_rr, sv_unhealthy, req_pc, req_in, ctx, cn_ended, cn_count>>
    /\ ReloadUntouched
    /\ ConnFrame

\* Upstream::dec_connections on the upstream of the context, if any.
dec_connections(r) ==
    IF IsSome(ctx[r].upstream)
    THEN LET up == Unwrap(ctx[r].upstream)
         IN  [active_connections EXCEPT ![<<up.lb[1], up.lb[2], up.idx>>] = @ - 1]
    ELSE active_connections

\* A slip: the connection is given back when the connect fails.
fail_to_connect_counted(r) == dec_connections(r)

\* ProxyHttp::fail_to_connect is not implemented by PingclairProxy: the
\* default leaves the counters alone.
fail_to_connect(r) == active_connections

\* The connection to the peer upstream_peer returned cannot be made:
\* pingora calls fail_to_connect, not error_while_proxy, and answers 502.
FailToConnect(r) ==
    /\ req_pc[r] = "upstream_request_filter"
    /\ active_connections' = fail_to_connect(r)
    /\ req_pc' = [req_pc EXCEPT ![r] = "failed"]
    /\ resp' = [resp EXCEPT ![r] = Some([status |-> 502, headers |-> {}, by |-> "ConnectError"])]
    /\ UNCHANGED <<port_proxies, next_arc, req_in, ctx, sv_rr, sv_unhealthy, sv_started,
                   cn_ended, cn_count>>
    /\ ReloadUntouched
    /\ ConnFrame

\* error_while_proxy: an error on the established connection, before the
\* response header has come (the request is waiting for response_filter) or
\* after it (response_filter has run and the body is being relayed).
ErrorWhileProxy(r) ==
    /\ ~cn_ended[r]
    /\ \/ req_pc[r] = "response_filter"
       \/ req_pc[r] = "done" /\ IsSome(resp[r]) /\ Unwrap(resp[r]).by = "upstream"
    /\ active_connections' = dec_connections(r)
    /\ resp' = IF req_pc[r] = "response_filter"
               THEN [resp EXCEPT ![r] = Some([status |-> 502, headers |-> {}, by |-> "ReadError"])]
               ELSE resp
    /\ req_pc' = [req_pc EXCEPT ![r] = "failed"]
    /\ cn_ended' = [cn_ended EXCEPT ![r] = req_pc[r] = "done"]
    /\ UNCHANGED <<port_proxies, next_arc, req_in, ctx, sv_rr, sv_unhealthy, sv_started, cn_count>>
    /\ ReloadUntouched
    /\ ConnFrame

\* The request ends: the response has been written in full, or the error
\* response has.
RequestEnd(r) ==
    /\ ~cn_ended[r]
    /\ req_pc[r] \in {"done", "failed"}
    /\ cn_ended' = [cn_ended EXCEPT ![r] = TRUE]
    /\ UNCHANGED <<resp, sv_rr, sv_unhealthy, sv_started, cn_count>>
    /\ UNCHANGED vars_reload
    /\ ConnFrame

\* The next request: new_ctx.
NextRequest(r) ==
    /\ cn_ended[r]
    /\ cn_count < MaxRequests
    /\ cn_count' = cn_count + 1
    /\ cn_ended' = [cn_ended EXCEPT ![r] = FALSE]
    /\ req_pc' = [req_pc EXCEPT ![r] = "new"]
    /\ ctx' = [ctx EXCEPT ![r] = NewCtx]
    /\ resp' = [resp EXCEPT ![r] = None]
    /\ UNCHANGED <<port_proxies, next_arc, active_connections, req_in, sv_rr, sv_unhealthy, sv_started>>
    /\ ReloadUntouched
    /\ ConnFrame

InitConn ==
    /\ cn_ended = [r \in Reqs |-> FALSE]
    /\ cn_count = 1

NextConn ==
    \/ ConnRunServer
    \/ sv_started /\ \E r \in Reqs : RequestFilter(r)
    \/ sv_started /\ \E r \in Reqs : UpstreamPeer(r)
    \/ sv_started /\ \E r \in Reqs : UpstreamRequestFilter(r)
    \/ sv_started /\ \E r \in Reqs : ResponseFilter(r)
    \/ \E r \in Reqs : FailToConnect(r)
    \/ \E r \in Reqs : ErrorWhileProxy(r)
    \/ \E r \in Reqs : RequestEnd(r)
    \/ \E r \in Reqs : NextRequest(r)

\* No request is in flight.
NoneInFlight == \A r \in Reqs : req_pc[r] = "new" \/ cn_ended[r]

\* C35: no active-connection counter is ever below zero, and whenever no
\* request is in flight every counter is back at the value it had before the
\* requests (zero).
C35_CounterBalanced ==
    /\ \A k \in DOMAIN active_connections : active_connections[k] >= 0
    /\ (sv_started /\ NoneInFlight) => \A k \in DOMAIN active_connections : active_connections[k] = 0

\* On the path of a response relayed without an error the counter is back.
BalancedOnNormalResponse ==
    [][\A r \in Reqs :
          (req_pc[r] = "done" /\ IsSome(resp[r]) /\ Unwrap(resp[r]).status = 200 /\ cn_ended'[r] /\ ~cn_ended[r]
             /\ req_pc'[r] = "done"
             /\ cn_count = 1)
          => \A k \in DOMAIN active_connections : active_connections'[k] = 0]_vars

\* ------------------------------------------------------------------------
\* get_certificate as a future that may be dropped (auto_https.rs)
\* ------------------------------------------------------------------------
\* The positions of a task inside get_certificate; each is an await.
InGetCertificate == {"gc_store", "gc_check", "gc_mark", "gc_acme", "gc_unmark", "gc_persist"}

\* The caller drops the future of get_certificate at an await (the client
\* went away during the handshake, the handshake timed out): the rest of the
\* function does not run, and no destructor touches the processing set.
Abandon(t) ==
    /\ hs_pc[t] \in InGetCertificate
    /\ hs_pc' = [hs_pc EXCEPT ![t] = "done"]
    /\ hs_result' = [hs_result EXCEPT ![t] = None]
    /\ UNCHANGED <<now, ticks, cert_cache, cert_files, processing, openssl_cache, issued,
                   hs_sni, hs_time, hs_prior, hs_served, hs_count, g_acme_failed>>
    /\ HsFrame

NextAbandon ==
    \/ \E t \in Tasks : CertificateCallback(t)
    \/ \E t \in Tasks : GetCertStoreCheck(t)
    \/ \E t \in Tasks : GetCertConcurrencyCheck(t)
    \/ \E t \in Tasks : GetCertMark(t)
    \/ \E t \in Tasks : GetCertAcme(t)
    \/ \E t \in Tasks : GetCertUnmark(t)
    \/ \E t \in Tasks : GetCertPersist(t)
    \/ \E t \in Tasks : CallbackInstall(t)
    \/ \E t \in Tasks : HandshakeEnd(t)
    \/ \E t \in Tasks : Abandon(t)
    \/ Tick

\* C36: a domain for which no get_certificate call is in progress is not in
\* the processing set.
C36_ProcessingOnlyWhileInProgress ==
    \A d \in Domains :
        (\A t \in Tasks : ~(hs_pc[t] \in InGetCertificate /\ hs_sni[t] = d)) => d \notin processing

\* ------------------------------------------------------------------------
\* The renewal task (auto_https.rs start_renewal_task, cert_store.rs
\* get_needing_renewal).  The task sleeps, scans the store, and calls
\* get_certificate on the primary domain of every candidate.  The ACME
\* server answers every order with a certificate.
\* ------------------------------------------------------------------------
MaxSeeds == 2

\* The orders in which a HashMap of the two domains may yield its values.
CacheOrders == {order \in Domains \X Domains : order[1] # order[2]}

\* A slip: a bundle is listed once for each of its domains.
scan_skips_keyed_by_domain(seen, cert, key) == key \in seen

\* get_needing_renewal: a certificate is skipped when its primary domain
\* has already produced a candidate.
scan_skips(seen, cert, key) == cert.domains[1] \in seen

\* get_needing_renewal over the values of the cache, in the order given.
RECURSIVE get_needing_renewal(_, _, _, _, _)
get_needing_renewal(cache, current, order, seen, candidates) ==
    IF order = <<>> THEN candidates
    ELSE LET entry == cache[Head(order)]
         IN  IF IsSome(entry)
                  /\ ~scan_skips(seen, Unwrap(entry), Head(order))
                  /\ needs_renewal(Unwrap(entry), current)
             THEN get_needing_renewal(cache, current, Tail(order),
                                      seen \cup {Unwrap(entry).domains[1]},
                                      Append(candidates, Unwrap(entry)))
             ELSE get_needing_renewal(cache, current, Tail(order), seen, candidates)

\* A slip: the renewal order names every domain of the bundle.
renewal_order_whole_bundle(cert, domain) == cert.domains

\* get_certificate asks obtain_certificate for the one domain it was given.
renewal_order(cert, domain) == <<domain>>

DaemonFrame == UNCHANGED <<vars_reload, vars_acme, vars_gc, vars_store, vars_resolve, vars_router,
                           vars_serve, vars_lb, vars_filter, vars_json, vars_compile, vars_renew,
                           vars_range, vars_file, vars_conn, ticks, processing, openssl_cache,
                           hs_pc, hs_sni, hs_time, hs_prior, hs_result, hs_served, hs_count,
                           g_acme_failed, cache_guard, g_read_in_issuance, restarted,
                           g_files_at_restart>>

\* A certificate reaches the store: CertStore::store(cert).
DaemonSeed ==
    /\ rd_seeds < MaxSeeds
    /\ rd_seeds' = rd_seeds + 1
    /\ \E domains \in StoreDomainLists :
         LET cert == NewCertificate(domains, issued + 1, now)
         IN  /\ cert_files' = CertStore_store_files(cert_files, cert)
             /\ cert_cache' = CertStore_store_cache(cert_cache, cert)
    /\ issued' = issued + 1
    /\ UNCHANGED <<now, rd_pc, rd_candidates>>
    /\ DaemonFrame

\* The sleep is over: the task scans the store.
DaemonScan ==
    /\ rd_pc = "sleep"
    /\ \E order \in CacheOrders :
         LET candidates == get_needing_renewal(cert_cache, now, order, {}, <<>>)
         IN  /\ rd_candidates' = candidates
             /\ rd_pc' = IF candidates = <<>> THEN "sleep" ELSE "renew"
    /\ UNCHANGED <<now, cert_cache, cert_files, issued, rd_seeds>>
    /\ DaemonFrame

\* get_certificate(primary) for the next candidate: a stored certificate
\* that does not need renewal is returned; a domain being processed is an
\* error; otherwise a certificate is obtained and stored.
DaemonRenew ==
    /\ rd_pc = "renew"
    /\ LET cert == Head(rd_candidates)
           domain == cert.domains[1]
           stored == CertStore_get(cert_cache, domain)
           fresh == NewCertificate(renewal_order(cert, domain), issued + 1, now)
       IN  IF (IsSome(stored) /\ ~needs_renewal(Unwrap(stored), now)) \/ domain \in processing
           THEN UNCHANGED <<cert_cache, cert_files, issued>>
           ELSE /\ cert_files' = CertStore_store_files(cert_files, fresh)
                /\ cert_cache' = CertStore_store_cache(cert_cache, fresh)
                /\ issued' = issued + 1
    /\ rd_candidates' = Tail(rd_candidates)
    /\ rd_pc' = IF Tail(rd_candidates) = <<>> THEN "sleep" ELSE "renew"
    /\ UNCHANGED <<now, rd_seeds>>
    /\ DaemonFrame

InitDaemon ==
    /\ rd_pc = "sleep"
    /\ rd_candidates = <<>>
    /\ rd_seeds = 0

NextDaemon ==
    \/ DaemonSeed
    \/ DaemonScan
    \/ DaemonRenew
    \/ Tick

\* The task is a spawned tokio task whose loop never ends: its sleep
\* returns and every step of an iteration is taken.
FairDaemon == WF_vars(DaemonScan) /\ WF_vars(DaemonRenew)

StoredNeedsRenewal(d) == IsSome(cert_cache[d]) /\ needs_renewal(Unwrap(cert_cache[d]), now)

StoredFresh(d) == IsSome(cert_cache[d]) /\ ~needs_renewal(Unwrap(cert_cache[d]), now)

\* C37: every domain whose stored certificate needs renewal eventually has
\* a stored certificate that does not, whether or not the domain is the
\* primary domain of its bundle.
C37_EveryDomainRenewed ==
    \A d \in Domains : StoredNeedsRenewal(d) ~> StoredFresh(d)

\* The part that holds: a domain that is the primary domain of its stored
\* certificate is renewed.
PrimaryDomainRenewed ==
    \A d \in Domains :
        (StoredNeedsRenewal(d) /\ Unwrap(cert_cache[d]).domains[1] = d) ~> StoredFresh(d)

\* ------------------------------------------------------------------------
\* The running CertStore against a fresh one over the same directory
\* (cert_store.rs): store and remove only, from an empty directory.
\* ------------------------------------------------------------------------
NextIndex ==
    \/ StoreStore
    \/ StoreRemove

\* CertStore::new followed by init over the directory as it is now, with
\* read_dir yielding the files in the order given.
Hydrated(order) == load_all([d \in Domains |-> None], cert_files, order)

\* C39: for every domain, get on the running store equals get on a fresh
\* store hydrated from the same directory (for some order in which the
\* directory can be read).
C39_IndexFaithfulToDisk ==
    \E order \in FileOrders :
        \A d \in Domains : CertStore_get(cert_cache, d) = CertStore_get(Hydrated(order), d)

\* ------------------------------------------------------------------------
\* Initial state and specifications
\* ------------------------------------------------------------------------
InitReload ==
    /\ port_proxies = Startup(Bindings(StartupConfig), [a \in {} |-> EmptyProxy], 1)
    /\ next_arc = Len(Bindings(StartupConfig)) + 1
    /\ active_connections = StartupCounters(Bindings(StartupConfig), 1)
    /\ req_pc = [r \in Reqs |-> "new"]
    /\ req_in = [r \in Reqs |-> [addr |-> "", host |-> ""]]
    /\ ctx = [r \in Reqs |-> NewCtx]
    /\ rl_pc = [k \in Reloaders |-> "idle"]
    /\ rl_src = [k \in Reloaders |-> [valid |-> TRUE, servers |-> <<>>]]
    /\ rl_todo = [k \in Reloaders |-> <<>>]
    /\ rl_updated = [k \in Reloaders |-> 0]
    /\ rl_errors = [k \in Reloaders |-> 0]
    /\ rl_outcome = [k \in Reloaders |-> "none"]
    /\ rl_count = [k \in Reloaders |-> 0]
    /\ g_before = [k \in Reloaders |-> <<>>]
    /\ g_clean = [k \in Reloaders |-> TRUE]
    /\ g_replaced = [k \in Reloaders |-> {}]
    /\ g_old_ids = {}
    /\ g_stale = [r \in Reqs |-> {}]
    /\ g_peer_saw = [r \in Reqs |-> None]

Init == InitReload /\ InitAuto /\ InitAcme /\ InitGc /\ InitStore /\ InitResolve /\ InitRouter /\ InitServe /\ InitLb /\ InitFilter /\ InitJson
        /\ InitCompile /\ InitRenew /\ InitRange /\ InitFile /\ InitConn /\ InitDaemon

NextReload ==
    \/ \E r \in Reqs : RequestFilter(r)
    \/ \E r \in Reqs : UpstreamPeer(r)
    \/ \E r \in Reqs : UpstreamRequestFilter(r)
    \/ \E r \in Reqs : ResponseFilter(r)
    \/ SighupRecv
    \/ SighupValidate
    \/ SighupApply
    \/ SighupFinish
    \/ AdminPost
    \/ AdminParse
    \/ AdminApply
    \/ AdminFinish

SpecReload == Init /\ [][NextReload]_vars

SpecAuto == Init /\ [][NextAuto]_vars

SpecAcme == Init /\ [][NextAcme]_vars

SpecGc == Init /\ [][NextGc]_vars

SpecStore == Init /\ [][NextStore]_vars

SpecResolve == Init /\ [][NextResolve]_vars

SpecRouter == Init /\ [][NextRouter]_vars

SpecServe == Init /\ [][NextServe]_vars

SpecLb == Init /\ [][NextLb]_vars

SpecHealth == Init /\ [][NextHealth]_vars

SpecFilter == Init /\ [][NextFilter]_vars

SpecJson == Init /\ [][NextJson]_vars

SpecCompile == Init /\ [][NextCompile]_vars

SpecRenew == Init /\ [][NextRenew]_vars

SpecRange == Init /\ [][NextRange]_vars

SpecFile == Init /\ [][NextFile]_vars

SpecConn == Init /\ [][NextConn]_vars

SpecAbandon == Init /\ [][NextAbandon]_vars

SpecIndex == Init /\ [][NextIndex]_vars

SpecDaemon == Init /\ [][NextDaemon]_vars /\ FairDaemon

\* ------------------------------------------------------------------------
\* Properties of hot reload
\* ------------------------------------------------------------------------
InFlight == {"upstream_peer", "upstream_request_filter", "response_filter"}

\* C2: a request keeps the ProxyState it captured in request_filter through
\* all later filters: no step changes the state or route held by an in-flight
\* request's context, and upstream_peer takes the load balancer and the proxy
\* headers from that captured state even when a reload has replaced the
\* virtual host's state in the meantime.
C2_SnapshotKept ==
    [][\A r \in Reqs :
          req_pc[r] \in InFlight =>
             /\ ctx'[r].state = ctx[r].state
             /\ ctx'[r].route = ctx[r].route
             /\ (req_pc[r] # "upstream_peer") =>
                    /\ ctx'[r].upstream = ctx[r].upstream
                    /\ ctx'[r].headers_up = ctx[r].headers_up
                    /\ ctx'[r].headers_down = ctx[r].headers_down
             /\ (req_pc[r] = "upstream_peer" /\ IsSome(ctx'[r].upstream)) =>
                    LET state   == Unwrap(ctx[r].state)
                        idx     == Unwrap(ctx[r].route)
                        handler == state.config.routes[idx].handler
                    IN  /\ IsSome(state.load_balancers[idx])
                        /\ Unwrap(ctx'[r].upstream).lb = Unwrap(state.load_balancers[idx]).id
                        /\ Unwrap(ctx'[r].upstream).addr \in
                               {handler.upstreams[i] : i \in 1..Len(handler.upstreams)}
                        /\ ctx'[r].headers_up = handler.headers_up
                        /\ ctx'[r].headers_down = handler.headers_down]_vars

\* A request selected its upstream after a reload had replaced the state of
\* its virtual host.
C2_Witness ==
    \E r \in Reqs :
        /\ req_pc[r] \in {"upstream_request_filter", "response_filter", "done"}
        /\ IsSome(ctx[r].upstream)
        /\ IsSome(g_peer_saw[r])
        /\ g_peer_saw[r] # ctx[r].state

\* C3: a request whose request_filter starts after a reload has completed is
\* never matched against a state that this reload took out of service.
C3_NewRoutesAfterReload ==
    \A r \in Reqs :
        IsSome(ctx[r].state) => Unwrap(ctx[r].state).id \notin g_stale[r]

\* A request started after a completed reload and is served by a server of
\* that reload's configuration.
C3_Witness ==
    \E r \in Reqs, k \in Reloaders :
        /\ rl_outcome[k] \in {"ok", "partial"}
        /\ g_stale[r] \cap g_replaced[k] # {}
        /\ IsSome(ctx[r].state)
        /\ \E i \in 1..Len(rl_src[k].servers) : Unwrap(ctx[r].state).config = rl_src[k].servers[i]

\* C4: when the new configuration does not parse or validate, the reload
\* attempt modifies no ProxyState: as long as no other reload has written,
\* the proxies are exactly what they were when the attempt started.
C4_FailedReloadKeepsState ==
    \A k \in Reloaders :
        (rl_count[k] > 0 /\ ~rl_src[k].valid /\ g_clean[k]) => port_proxies = g_before[k]

\* Both reload paths were given an invalid configuration and reported it.
C4_Witness ==
    \A k \in Reloaders : rl_outcome[k] = "error" /\ ~rl_src[k].valid /\ g_clean[k]

\* The configurations served, without the identities of the states.
ConfigOf(ostate) == IF IsSome(ostate) THEN Some(Unwrap(ostate).config) ELSE None

ConfigView(pp) ==
    [a \in DOMAIN pp |->
        [hosts   |-> [h \in DOMAIN pp[a].hosts |-> pp[a].hosts[h].config],
         default |-> ConfigOf(pp[a].default)]]

\* The (listener, server) pairs a reload addresses: SIGHUP installs a server
\* on its first listen address, the admin POST on each listen address.
Targets(k) ==
    IF k = "sighup"
    THEN {<<first_listen(rl_src[k].servers[i]), rl_src[k].servers[i]>> : i \in 1..Len(rl_src[k].servers)}
    ELSE {<<rl_src[k].servers[1].listen[j], rl_src[k].servers[1]>> : j \in 1..Len(rl_src[k].servers[1].listen)}

Installed(pp, a, s) ==
    /\ a \in DOMAIN pp
    /\ ConfigOf(get_state_of(pp[a], s)) = Some(s)

\* The view expected when every target with a bound listener is installed.
ExpectedView(view, targets) ==
    [a \in DOMAIN view |->
        LET mine == {t[2] : t \in {u \in targets : u[1] = a}}
        IN  [hosts   |-> [h \in (DOMAIN view[a].hosts) \cup {Unwrap(s.name) : s \in {x \in mine : IsSome(x.name)}} |->
                            IF \E s \in mine : s.name = Some(h)
                            THEN CHOOSE s \in mine : s.name = Some(h)
                            ELSE view[a].hosts[h]],
             default |-> IF \E s \in mine : s.name = None
                         THEN Some(CHOOSE s \in mine : s.name = None)
                         ELSE view[a].default]]

Ended(k) == rl_pc[k] = "idle" /\ rl_outcome[k] # "none" /\ g_clean[k]

\* C5 as stated: a reload attempt ends either with every server of the new
\* configuration active on the listener it is addressed to, or with the
\* running configuration entirely unchanged.
C5_AllOrNothing ==
    \A k \in Reloaders :
        Ended(k) =>
            \/ \A t \in Targets(k) : Installed(port_proxies, t[1], t[2])
            \/ ConfigView(port_proxies) = ConfigView(g_before[k])

\* C5 amended: a reload that does not parse leaves the configuration
\* unchanged; a reload that parses installs every server whose addressed
\* listener is bound and skips the others, leaving all else as it was.
C5_AppliedPerBoundListener ==
    \A k \in Reloaders :
        Ended(k) =>
            ConfigView(port_proxies) =
                IF rl_outcome[k] = "error"
                THEN ConfigView(g_before[k])
                ELSE ExpectedView(ConfigView(g_before[k]), Targets(k))

\* A SIGHUP reload ended partially applied: one listener updated, one server
\* skipped because its address is not bound.
C5_Witness ==
    /\ Ended("sighup")
    /\ rl_outcome["sighup"] = "partial"
    /\ rl_updated["sighup"] > 0

\* C40: after a SIGHUP reload that reported success, every server of the new
\* configuration is installed on each of its listen addresses on which it
\* was being served when the reload started.
C40_ReloadReachesEveryListener ==
    (Ended("sighup") /\ rl_outcome["sighup"] = "ok") =>
        \A i \in 1..Len(rl_src["sighup"].servers) :
            LET s == rl_src["sighup"].servers[i]
            IN  \A j \in 1..Len(listen_addrs(s)) :
                    LET addr == listen_addrs(s)[j]
                    IN  (/\ addr \in DOMAIN g_before["sighup"]
                         /\ IsSome(get_state_of(g_before["sighup"][addr], s)))
                            => Installed(port_proxies, addr, s)

====
